---------------------------- MODULE Spec2Model ----------------------------
(***************************************************************************)
(* CommandLineTask of fireworks/user_objects/firetasks/dataflow_tasks.py   *)
(* together with DictMods.push of fireworks/utilities/dict_mods.py.        *)
(*                                                                         *)
(* Python values are tagged records.  A str is a sequence of chunks: a     *)
(* chunk is either a whitespace character or an indivisible run of         *)
(* non-whitespace text.  Dictionaries are functions from keys (TLA+        *)
(* strings) to values.  Python objects are shared by reference; the two    *)
(* long-lived object graphs are the task's command_spec and the fw_spec    *)
(* dictionary handed to run_task, and a reference is a path into one of    *)
(* them.                                                                   *)
(***************************************************************************)
EXTENDS Integers, Sequences, FiniteSets, TLC

(***************************************************************************)
(* Bounds                                                                  *)
(***************************************************************************)
MaxRuns == 2

(***************************************************************************)
(* Python values                                                           *)
(***************************************************************************)
None == [k |-> "none"]
Str(s) == [k |-> "str", s |-> s]
Bytes(s) == [k |-> "bytes", s |-> s]
Num(n) == [k |-> "int", n |-> n]
Dict(d) == [k |-> "dict", d |-> d]
List(l) == [k |-> "list", l |-> l]
EmptyDict == Dict([x \in {} |-> None])

W(c) == Str(<<c>>)

IsStr(v) == v.k = "str"
IsDict(v) == v.k = "dict"
IsList(v) == v.k = "list"

HasKey(v, key) == IsDict(v) /\ key \in DOMAIN v.d

Whitespace == {" ", "\n"}

RECURSIVE Join(_)
Join(s) == IF Len(s) = 0 THEN "" ELSE Head(s) \o Join(Tail(s))

KeyOf(v) == Join(v.s)

Digits == <<"0", "1", "2", "3", "4", "5", "6", "7", "8", "9">>

(* str(x) for the value kinds a source value may have *)
PyStr(v) ==
    CASE v.k = "str" -> v.s
      [] v.k = "int" -> <<Digits[v.n + 1]>>
      [] v.k = "none" -> <<"None">>
      [] OTHER -> <<"<object>">>

(***************************************************************************)
(* References into the two object graphs                                   *)
(***************************************************************************)
Ref(root, path) == [root |-> root, path |-> path]

RECURSIVE Get(_, _)
Get(v, p) ==
    IF Len(p) = 0 THEN v
    ELSE IF IsDict(v) THEN Get(v.d[Head(p)], Tail(p))
    ELSE Get(v.l[Head(p)], Tail(p))

RECURSIVE Set(_, _, _)
Set(v, p, nv) ==
    IF Len(p) = 0 THEN nv
    ELSE IF IsDict(v)
         THEN Dict([key \in DOMAIN v.d \cup {Head(p)} |->
                     IF key = Head(p)
                     THEN Set(IF key \in DOMAIN v.d THEN v.d[key] ELSE None,
                              Tail(p), nv)
                     ELSE v.d[key]])
         ELSE List([v.l EXCEPT ![Head(p)] = Set(@, Tail(p), nv)])

Deref(cs, fs, r) == Get(IF r.root = "cmd" THEN cs ELSE fs, r.path)

Sub(r, key) == Ref(r.root, Append(r.path, key))

(***************************************************************************)
(* Binding resolution, run_task lines 93-125.  A resolved descriptor is    *)
(*   [kind |-> "fresh", f |-> key :> reference]  the local dict inp, each  *)
(*        field holding a reference to the object it was assigned;         *)
(*   [kind |-> "obj", ref |-> reference]  a fw_spec list item appended as  *)
(*        is;                                                              *)
(*   [kind |-> "list", items |-> sequence of descriptors]  the local list  *)
(*        inp built for a label given as a string.                         *)
(* The fw_spec values iterated at line 100 are lists in every input the    *)
(* model draws; a value that is not iterable raises TypeError.             *)
(***************************************************************************)
NoErr == ""

Fresh(f) == [kind |-> "fresh", f |-> f]
Obj(r) == [kind |-> "obj", ref |-> r]
Items(s) == [kind |-> "list", items |-> s]

NoFields == [x \in {} |-> Ref("cmd", <<>>)]

(* key in v, as at line 101: a key of a dict, a substring of a str (no     *)
(* chunk of the model contains a key name without being it), an element   *)
(* of a list                                                               *)
Contains(v, key) ==
    CASE v.k = "dict" -> key \in DOMAIN v.d
      [] v.k = "str" -> \E i \in 1..Len(v.s) : v.s[i] = key
      [] v.k = "list" -> \E i \in 1..Len(v.l) : v.l[i] = W(key)
      [] OTHER -> FALSE

Iterable(item) == item.k \in {"dict", "str", "list"}

(* lines 99-104 *)
RECURSIVE ResolveItems(_, _, _, _)
ResolveItems(fs, key, i, acc) ==
    IF i > Len(fs.d[key].l) THEN [err |-> NoErr, inp |-> Items(acc)]
    ELSE LET item == fs.d[key].l[i]
             r == Ref("fw", <<key, i>>)
         IN  IF ~Iterable(item) THEN [err |-> "TypeError", inp |-> Items(acc)]
             ELSE IF Contains(item, "source")
                  THEN ResolveItems(fs, key, i + 1, Append(acc, Obj(r)))
                  ELSE ResolveItems(fs, key, i + 1,
                                    Append(acc, Fresh("source" :> r)))

IOKeys == <<"binding", "source", "target">>

ResolveFieldsVerbatim(cs, fs, label, j, f) ==
    [err |-> NoErr,
     inp |-> Fresh([key \in DOMAIN cs.d[label].d \cap {"binding", "source", "target"} |->
                      Ref("cmd", <<label, key>>)])]

(* lines 106-124 *)
RECURSIVE ResolveFields(_, _, _, _, _)
ResolveFields(cs, fs, label, j, f) ==
    IF j > Len(IOKeys) THEN [err |-> NoErr, inp |-> Fresh(f)]
    ELSE LET key == IOKeys[j]
             entry == cs.d[label]
         IN  IF ~(key \in DOMAIN entry.d)
             THEN ResolveFields(cs, fs, label, j + 1, f)
             ELSE LET item == entry.d[key]
                  IN  IF IsStr(item)
                      THEN IF ~(KeyOf(item) \in DOMAIN fs.d)
                           THEN [err |-> "KeyError", inp |-> Fresh(f)]
                           ELSE IF IsList(fs.d[KeyOf(item)])
                                THEN IF Len(fs.d[KeyOf(item)].l) = 0
                                     THEN [err |-> "IndexError", inp |-> Fresh(f)]
                                     ELSE ResolveFields(cs, fs, label, j + 1,
                                            f @@ (key :> Ref("fw", <<KeyOf(item), 1>>)))
                                ELSE ResolveFields(cs, fs, label, j + 1,
                                       f @@ (key :> Ref("fw", <<KeyOf(item)>>)))
                      ELSE IF IsDict(item)
                           THEN ResolveFields(cs, fs, label, j + 1,
                                  f @@ (key :> Ref("cmd", <<label, key>>)))
                           ELSE [err |-> "ValueError", inp |-> Fresh(f)]

(* lines 98-125, one label *)
ResolveLabel(cs, fs, label) ==
    IF ~(label \in DOMAIN cs.d) THEN [err |-> "KeyError", inp |-> Fresh(NoFields)]
    ELSE IF IsStr(cs.d[label])
         THEN IF ~(KeyOf(cs.d[label]) \in DOMAIN fs.d)
              THEN [err |-> "KeyError", inp |-> Fresh(NoFields)]
              ELSE IF ~IsList(fs.d[KeyOf(cs.d[label])])
                   THEN [err |-> "TypeError", inp |-> Fresh(NoFields)]
                   ELSE ResolveItems(fs, KeyOf(cs.d[label]), 1, <<>>)
         ELSE IF ~IsDict(cs.d[label])
              THEN [err |-> "TypeError", inp |-> Fresh(NoFields)]
              ELSE ResolveFields(cs, fs, label, 1, NoFields)

(* lines 97-125, one of the two label lists *)
RECURSIVE ResolveLabels(_, _, _, _, _)
ResolveLabels(cs, fs, labels, i, acc) ==
    IF i > Len(labels) THEN [err |-> NoErr, ios |-> acc]
    ELSE LET r == ResolveLabel(cs, fs, labels[i])
         IN  IF r.err # NoErr THEN [err |-> r.err, ios |-> acc]
             ELSE ResolveLabels(cs, fs, labels, i + 1, Append(acc, r.inp))

(***************************************************************************)
(* Environment expansion, run_task lines 127-227.  exec and eval run       *)
(* arbitrary Python text: an executed initialisation is recorded in the    *)
(* log, and an evaluated expression yields the value EvalResult gives it.  *)
(***************************************************************************)
EvalResult(expr) ==
    CASE KeyOf(expr) = "mpiopts" -> Str(<<"-n", " ", "4">>)
      [] KeyOf(expr) = "rawopts" -> Bytes(<<" ", "-x", "\n">>)
      [] KeyOf(expr) = "blank" -> Str(<<" ">>)
      [] KeyOf(expr) = "nprocs" -> Num(4)
      [] OTHER -> None

(* bytes.decode("utf-8"), line 194: only bytes have the method *)
Decode(v) == IF v.k = "bytes" THEN Str(v.s) ELSE v

(* str.split(): the maximal runs of non-whitespace text *)
RECURSIVE SplitFrom(_, _, _, _)
SplitFrom(s, i, cur, acc) ==
    IF i > Len(s)
    THEN IF Len(cur) = 0 THEN acc ELSE Append(acc, Str(cur))
    ELSE IF s[i] \in Whitespace
         THEN SplitFrom(s, i + 1, <<>>,
                        IF Len(cur) = 0 THEN acc ELSE Append(acc, Str(cur)))
         ELSE SplitFrom(s, i + 1, Append(cur, s[i]), acc)

Split(s) == SplitFrom(s, 1, <<>>, <<>>)

(* lines 157-161 and 171-175: the init expressions, executed in order *)
InitList(init) == IF IsStr(init) THEN <<init>> ELSE init.l

RunInitReversed(tab, log) ==
    IF ~("init" \in DOMAIN tab.d) THEN [err |-> NoErr, log |-> log]
    ELSE [err |-> NoErr,
          log |-> log \o [i \in 1..Len(InitList(tab.d["init"])) |->
                            [op |-> "exec",
                             code |-> InitList(tab.d["init"])[
                                         Len(InitList(tab.d["init"])) + 1 - i]]]]

RunInit(tab, log) ==
    IF ~("init" \in DOMAIN tab.d) THEN [err |-> NoErr, log |-> log]
    ELSE IF ~(IsStr(tab.d["init"]) \/ IsList(tab.d["init"]))
         THEN [err |-> "AssertionError", log |-> log]
         ELSE [err |-> NoErr,
               log |-> log \o [i \in 1..Len(InitList(tab.d["init"])) |->
                                 [op |-> "exec", code |-> InitList(tab.d["init"])[i]]]]

ProcessPrefixLenient(prefix) ==
    IF IsStr(prefix) THEN [err |-> NoErr, toks |-> Split(prefix.s)]
    ELSE IF IsDict(prefix) /\ "eval" \in DOMAIN prefix.d
              /\ IsStr(Decode(EvalResult(prefix.d["eval"])))
         THEN [err |-> NoErr, toks |-> Split(Decode(EvalResult(prefix.d["eval"])).s)]
         ELSE [err |-> NoErr, toks |-> <<>>]

(* lines 187-216, one prefix entry *)
ProcessPrefix(prefix) ==
    IF IsDict(prefix)
    THEN IF "eval" \in DOMAIN prefix.d
         THEN LET processed_prefix == Decode(EvalResult(prefix.d["eval"]))
              IN  IF IsStr(processed_prefix)
                  THEN [err |-> NoErr, toks |-> Split(processed_prefix.s)]
                  ELSE [err |-> "ValueError", toks |-> <<>>]
         ELSE [err |-> "ValueError", toks |-> <<>>]
    ELSE IF IsStr(prefix)
         THEN [err |-> NoErr, toks |-> Split(prefix.s)]
         ELSE [err |-> "ValueError", toks |-> <<>>]

EvalLog(prefix) ==
    IF IsDict(prefix) /\ "eval" \in DOMAIN prefix.d
    THEN <<[op |-> "eval", code |-> prefix.d["eval"]]>>
    ELSE <<>>

(* lines 185-218 *)
RECURSIVE ProcessPrefixList(_, _, _, _)
ProcessPrefixList(prefix_list, i, processed_prefix_list, log) ==
    IF i > Len(prefix_list)
    THEN [err |-> NoErr, toks |-> processed_prefix_list, log |-> log]
    ELSE LET r == ProcessPrefix(prefix_list[i])
             l == log \o EvalLog(prefix_list[i])
         IN  IF r.err # NoErr
             THEN [err |-> r.err, toks |-> processed_prefix_list, log |-> l]
             ELSE ProcessPrefixList(prefix_list, i + 1,
                                    processed_prefix_list \o r.toks, l)

PrependAfter(processed_prefix_list, command) == command \o processed_prefix_list

(* line 221 *)
Prepend(processed_prefix_list, command) == processed_prefix_list \o command

(* lines 167-225: the expansion for the command head *)
ExpandHead(prof, command, aliased, log) ==
    IF Len(command) = 0
    THEN [err |-> "IndexError", command |-> command, aliased |-> aliased, log |-> log]
    ELSE LET head == KeyOf(command[1])
         IN  IF ~("cmd" \in DOMAIN prof.d /\ head \in DOMAIN prof.d["cmd"].d)
             THEN [err |-> NoErr, command |-> command, aliased |-> aliased, log |-> log]
             ELSE LET entry == prof.d["cmd"].d[head]
                      ini == RunInit(entry, log)
                  IN  IF ini.err # NoErr
                      THEN [err |-> ini.err, command |-> command,
                            aliased |-> aliased, log |-> ini.log]
                      ELSE IF ~("prefix" \in DOMAIN entry.d)
                           THEN [err |-> NoErr, command |-> command,
                                 aliased |-> aliased, log |-> ini.log]
                           ELSE LET prefix_list ==
                                        IF IsList(entry.d["prefix"])
                                        THEN entry.d["prefix"].l
                                        ELSE <<entry.d["prefix"]>>
                                    pp == ProcessPrefixList(prefix_list, 1, <<>>, ini.log)
                                IN  IF pp.err # NoErr
                                    THEN [err |-> pp.err, command |-> command,
                                          aliased |-> aliased, log |-> pp.log]
                                    ELSE [err |-> NoErr,
                                          command |-> Prepend(pp.toks, command),
                                          aliased |-> FALSE, log |-> pp.log]

(* lines 127-129: the local command list; it is the list object of the    *)
(* command_spec itself (aliased) when 'command' is given as a list         *)
LocalCommand(cs) ==
    IF ~("command" \in DOMAIN cs.d)
    THEN [err |-> "KeyError", command |-> <<>>, aliased |-> FALSE]
    ELSE IF IsStr(cs.d["command"])
         THEN [err |-> NoErr, command |-> <<cs.d["command"]>>, aliased |-> FALSE]
         ELSE IF IsList(cs.d["command"])
              THEN [err |-> NoErr, command |-> cs.d["command"].l, aliased |-> TRUE]
              ELSE [err |-> "AssertionError", command |-> <<>>, aliased |-> FALSE]

ExpandStrict(fs, env, command, aliased) ==
    IF env = None \/ (IsStr(env) /\ Len(env.s) = 0)
    THEN [err |-> NoErr, command |-> command, aliased |-> aliased, log |-> <<>>]
    ELSE IF ~("_fw_env" \in DOMAIN fs.d /\ KeyOf(env) \in DOMAIN fs.d["_fw_env"].d)
         THEN [err |-> "KeyError", command |-> command, aliased |-> aliased, log |-> <<>>]
         ELSE ExpandHead(fs.d["_fw_env"].d[KeyOf(env)], command, aliased,
                         RunInit(fs.d["_fw_env"].d[KeyOf(env)], <<>>).log)

(* lines 152-227 *)
Expand(fs, env, command, aliased) ==
    IF env = None \/ (IsStr(env) /\ Len(env.s) = 0)
    THEN [err |-> NoErr, command |-> command, aliased |-> aliased, log |-> <<>>]
    ELSE IF ~("_fw_env" \in DOMAIN fs.d /\ KeyOf(env) \in DOMAIN fs.d["_fw_env"].d)
         THEN [err |-> NoErr, command |-> command, aliased |-> aliased, log |-> <<>>]
         ELSE LET prof == fs.d["_fw_env"].d[KeyOf(env)]
                  ini == RunInit(prof, <<>>)
              IN  IF ini.err # NoErr
                  THEN [err |-> ini.err, command |-> command,
                        aliased |-> aliased, log |-> ini.log]
                  ELSE ExpandHead(prof, command, aliased, ini.log)

(***************************************************************************)
(* The file system and the streams of the child process                    *)
(***************************************************************************)
Cwd == <<"/", "w">>
Dirs == {Cwd, <<"/", "d">>}

(* os.path.abspath; the paths of the model need no further normalisation *)
AbsPath(p) == IF Len(p) > 0 /\ p[1] = "/" THEN p ELSE Cwd \o <<"/">> \o p
IsDir(p) == p \in Dirs
(* os.path.join(path, str(uuid.uuid4())); the n-th identifier drawn *)
Uuid4(n) == <<"u" \o ToString(n)>>
PathJoin(p, name) == p \o <<"/">> \o name

PIPE == [k |-> "pipe"]
File(path, mode) == [k |-> "file", path |-> path, mode |-> mode]

(***************************************************************************)
(* Argument builder, command_line_tool lines 279-358.  The builder state   *)
(* b holds the locals arglist, stdin, stdout, stderr, stdininp, the two    *)
(* object graphs cs (command_spec) and fs (fw_spec) that the descriptors   *)
(* refer to, the set of existing files and the number of identifiers       *)
(* drawn.  b.aliased says that arglist is the command list of cs itself    *)
(* (line 288 binds the name, it does not copy).                            *)
(***************************************************************************)
Fail(b, e) == [b EXCEPT !.err = e]

ArgHas(b, arg, key) ==
    IF arg.kind = "fresh" THEN key \in DOMAIN arg.f
    ELSE Contains(Deref(b.cs, b.fs, arg.ref), key)

ArgRef(arg, key) == IF arg.kind = "fresh" THEN arg.f[key] ELSE Sub(arg.ref, key)

(* arg[key] can be taken: arg is a dict *)
ArgIsDict(b, arg) == arg.kind = "fresh" \/ IsDict(Deref(b.cs, b.fs, arg.ref))

(* v[key] *)
Lookup(v, key) ==
    IF ~IsDict(v) THEN [err |-> "TypeError", v |-> None]
    ELSE IF ~(key \in DOMAIN v.d) THEN [err |-> "KeyError", v |-> None]
         ELSE [err |-> NoErr, v |-> v.d[key]]

set_binding_reversed(b, arg) ==
    IF ~ArgHas(b, arg, "binding") THEN [err |-> NoErr, s |-> <<>>]
    ELSE LET binding == Deref(b.cs, b.fs, ArgRef(arg, "binding"))
         IN  [err |-> NoErr,
              s |-> (IF Contains(binding, "separator")
                     THEN binding.d["separator"].s ELSE <<>>)
                    \o (IF Contains(binding, "prefix")
                        THEN binding.d["prefix"].s ELSE <<>>)]

(* lines 279-286 *)
set_binding(b, arg) ==
    IF ~ArgHas(b, arg, "binding") THEN [err |-> NoErr, s |-> <<>>]
    ELSE IF ~ArgIsDict(b, arg) THEN [err |-> "TypeError", s |-> <<>>]
    ELSE LET binding == Deref(b.cs, b.fs, ArgRef(arg, "binding"))
         IN  IF ~Iterable(binding) THEN [err |-> "TypeError", s |-> <<>>]
             ELSE LET hasp == Contains(binding, "prefix")
                      hass == Contains(binding, "separator")
                  IN  IF (hasp \/ hass) /\ ~IsDict(binding)
                      THEN [err |-> "TypeError", s |-> <<>>]
                      ELSE IF hasp /\ ~IsStr(binding.d["prefix"])
                      THEN [err |-> "TypeError", s |-> <<>>]
                      ELSE IF hass /\ ~IsStr(binding.d["separator"])
                      THEN [err |-> "TypeError", s |-> <<>>]
                      ELSE [err |-> NoErr,
                            s |-> (IF hasp THEN binding.d["prefix"].s ELSE <<>>)
                                  \o (IF hass THEN binding.d["separator"].s ELSE <<>>)]

(* lines 320-321 and 357-358; the append reaches the command_spec when     *)
(* arglist is its command list                                             *)
AppendArg(b, argstr) ==
    IF Len(argstr) = 0 THEN b
    ELSE [b EXCEPT !.arglist = Append(@, Str(argstr)),
                   !.cs = IF b.aliased
                          THEN Set(@, <<"command">>,
                                   List(Append(b.arglist, Str(argstr))))
                          ELSE @]

InputToStdinInline(b, arg, source) ==
    [b EXCEPT !.stdin = PIPE, !.stdininp = Bytes(PyStr(source.d["value"]))]

(* lines 301-311: the input claims standard input *)
InputToStdin(b, arg, source) ==
    LET target == Deref(b.cs, b.fs, ArgRef(arg, "target"))
    IN  IF target = None THEN Fail(b, "AssertionError")
        ELSE IF Lookup(target, "type").err # NoErr
        THEN Fail(b, Lookup(target, "type").err)
        ELSE IF target.d["type"] # W("stdin") THEN Fail(b, "AssertionError")
        ELSE IF source.d["type"] = W("path")
        THEN IF ~IsStr(source.d["value"]) THEN Fail(b, "TypeError")
             ELSE IF ~(source.d["value"].s \in b.files) THEN Fail(b, "IOError")
             ELSE [b EXCEPT !.stdin = File(source.d["value"].s, "r")]
        ELSE IF source.d["type"] = W("data")
        THEN [b EXCEPT !.stdin = PIPE,
                       !.stdininp = Bytes(PyStr(source.d["value"]))]
        ELSE Fail(b, "NotImplementedError")

(* lines 312-319: the input is an ordinary argument *)
InputToArg(b, source, argstr) ==
    IF source.d["type"] = W("path")
    THEN IF ~IsStr(source.d["value"]) THEN [err |-> "TypeError", s |-> argstr]
         ELSE [err |-> NoErr, s |-> argstr \o source.d["value"].s]
    ELSE IF source.d["type"] = W("data")
    THEN [err |-> NoErr, s |-> argstr \o PyStr(source.d["value"])]
    ELSE [err |-> "NotImplementedError", s |-> argstr]

(* lines 297-321, one input argument *)
BuildInput(b, arg) ==
    LET bind == set_binding(b, arg)
    IN  IF bind.err # NoErr THEN Fail(b, bind.err)
        ELSE IF ~ArgHas(b, arg, "source") THEN Fail(b, "AssertionError")
        ELSE IF ~ArgIsDict(b, arg) THEN Fail(b, "TypeError")
        ELSE LET source == Deref(b.cs, b.fs, ArgRef(arg, "source"))
             IN  IF Lookup(source, "type").err # NoErr
                 THEN Fail(b, Lookup(source, "type").err)
                 ELSE IF source.d["type"] = None THEN Fail(b, "AssertionError")
                 ELSE IF Lookup(source, "value").err # NoErr
                 THEN Fail(b, Lookup(source, "value").err)
                 ELSE IF source.d["value"] = None THEN Fail(b, "AssertionError")
                 ELSE IF ArgHas(b, arg, "target")
                 THEN LET c == InputToStdin(b, arg, source)
                      IN  IF c.err # NoErr THEN c ELSE AppendArg(c, bind.s)
                 ELSE LET a == InputToArg(b, source, bind.s)
                      IN  IF a.err # NoErr THEN Fail(b, a.err)
                          ELSE AppendArg(b, a.s)

(* line 295 *)
ArgL(inp) == IF inp.kind = "list" THEN inp.items ELSE <<inp>>

(* lines 293-321 *)
RECURSIVE BuildInputs(_, _, _, _)
BuildInputs(b, inputs, i, j) ==
    IF b.err # NoErr \/ i > Len(inputs) THEN b
    ELSE IF j > Len(ArgL(inputs[i])) THEN BuildInputs(b, inputs, i + 1, 1)
         ELSE BuildInputs(BuildInput(b, ArgL(inputs[i])[j]), inputs, i, j + 1)

(* a write through a reference: arg['target']['value'] = v *)
Write(b, r, v) ==
    IF r.root = "cmd" THEN [b EXCEPT !.cs = Set(@, r.path, v)]
    ELSE [b EXCEPT !.fs = Set(@, r.path, v)]

(* open(path, 'w'), lines 343 and 345 *)
OpenW(b, stream, path) ==
    IF stream = "stdout"
    THEN [b EXCEPT !.stdout = File(path, "w"), !.files = @ \cup {path}]
    ELSE [b EXCEPT !.stderr = File(path, "w"), !.files = @ \cup {path}]

(* lines 333-336: the effective target path *)
TargetPath(value, n) ==
    IF IsDir(AbsPath(value)) THEN PathJoin(AbsPath(value), Uuid4(n))
    ELSE AbsPath(value)

(* lines 339-351: what the source of a path output asks for *)
PathOutputSource(b, arg, path, argstr) ==
    IF ~ArgHas(b, arg, "source") THEN AppendArg(b, argstr \o path)
    ELSE LET source == Deref(b.cs, b.fs, ArgRef(arg, "source"))
         IN  IF source = None THEN Fail(b, "AssertionError")
             ELSE IF ~Iterable(source) THEN Fail(b, "TypeError")
             ELSE IF ~Contains(source, "type") THEN Fail(b, "AssertionError")
             ELSE IF ~IsDict(source) THEN Fail(b, "TypeError")
             ELSE IF source.d["type"] = W("stdout")
                  THEN AppendArg(OpenW(b, "stdout", path), argstr)
             ELSE IF source.d["type"] = W("stderr")
                  THEN AppendArg(OpenW(b, "stderr", path), argstr)
             ELSE IF source.d["type"] = W("path")
                  THEN AppendArg(b, argstr)
             ELSE AppendArg(b, argstr \o path)

(* lines 330-351: an output whose target has type path *)
BuildPathOutput(b, arg, target, argstr) ==
    IF ~("value" \in DOMAIN target.d) THEN Fail(b, "AssertionError")
    ELSE IF ~(target.d["value"].k \in {"str", "list", "dict"})
    THEN Fail(b, "TypeError")
    ELSE IF IsStr(target.d["value"]) /\ Len(target.d["value"].s) = 0
    THEN Fail(b, "AssertionError")
    ELSE IF IsList(target.d["value"]) /\ Len(target.d["value"].l) = 0
    THEN Fail(b, "AssertionError")
    ELSE IF IsDict(target.d["value"]) /\ DOMAIN target.d["value"].d = {}
    THEN Fail(b, "AssertionError")
    ELSE IF ~IsStr(target.d["value"]) THEN Fail(b, "TypeError")
    ELSE LET path == TargetPath(target.d["value"].s, b.uuid + 1)
             drew == IsDir(AbsPath(target.d["value"].s))
             c == Write([b EXCEPT !.uuid = IF drew THEN @ + 1 ELSE @],
                        Sub(ArgRef(arg, "target"), "value"), Str(path))
         IN  PathOutputSource(c, arg, path, argstr)

BuildOutputArgLenient(b, arg) == b

(* lines 325-358, one output *)
BuildOutputArg(b, arg) ==
    LET bind == set_binding(b, arg)
    IN  IF bind.err # NoErr THEN Fail(b, bind.err)
        ELSE IF ~ArgHas(b, arg, "target") THEN Fail(b, "AssertionError")
        ELSE IF ~ArgIsDict(b, arg) THEN Fail(b, "TypeError")
        ELSE LET target == Deref(b.cs, b.fs, ArgRef(arg, "target"))
             IN  IF target = None THEN Fail(b, "AssertionError")
                 ELSE IF Lookup(target, "type").err # NoErr
                 THEN Fail(b, Lookup(target, "type").err)
                 ELSE IF target.d["type"] = W("path")
                 THEN BuildPathOutput(b, arg, target, bind.s)
                 ELSE IF target.d["type"] = W("data")
                 THEN AppendArg([b EXCEPT !.stdout = PIPE], bind.s)
                 ELSE Fail(b, "NotImplementedError")

(* lines 325-326 *)
BuildOutput(b, out) ==
    IF out.kind = "list"
    THEN IF Len(out.items) = 0 THEN Fail(b, "IndexError")
         ELSE BuildOutputArg(b, out.items[1])
    ELSE BuildOutputArg(b, out)

(* lines 323-358 *)
RECURSIVE BuildOutputs(_, _, _)
BuildOutputs(b, outputs, i) ==
    IF b.err # NoErr \/ i > Len(outputs) THEN b
    ELSE BuildOutputs(BuildOutput(b, outputs[i]), outputs, i + 1)

(* lines 288-358 *)
Build(cs, fs, files, uuid, command, aliased, inputs, outputs) ==
    BuildOutputs(
        BuildInputs([err |-> NoErr, arglist |-> command, aliased |-> aliased,
                     cs |-> cs, fs |-> fs, files |-> files, uuid |-> uuid,
                     stdin |-> None, stdout |-> None, stderr |-> PIPE,
                     stdininp |-> None],
                    inputs, 1, 1),
        outputs, 1)

(***************************************************************************)
(* Process executor, lines 360-364.  The child process is external: it     *)
(* ends with any exit status and writes any text to its two streams.       *)
(* communicate() returns the bytes of a stream that is a pipe and None     *)
(* for a stream that is not.                                               *)
(***************************************************************************)
ExitCodes == {0, 2}
StdoutTexts == {<<" ", "hello", "\n">>, <<"bye">>}
StderrTexts == {<<"boom", "\n">>, <<>>}

Communicate(stdout, stderr, wout, werr) ==
    <<IF stdout = PIPE THEN Bytes(wout) ELSE None,
      IF stderr = PIPE THEN Bytes(werr) ELSE None>>

ErrTextStdout(res) == res[1]

(* line 363: the text the error carries *)
ErrText(res) == IF Len(res) > 1 THEN res[2] ELSE Str(<<>>)

(***************************************************************************)
(* Output harvester, lines 366-380                                         *)
(***************************************************************************)
RECURSIVE LStrip(_)
LStrip(s) == IF Len(s) > 0 /\ Head(s) \in Whitespace THEN LStrip(Tail(s)) ELSE s

RECURSIVE RStrip(_)
RStrip(s) ==
    IF Len(s) > 0 /\ s[Len(s)] \in Whitespace
    THEN RStrip(SubSeq(s, 1, Len(s) - 1))
    ELSE s

(* bytes.decode().strip(), line 377 *)
Strip(s) == RStrip(LStrip(s))

CopyFileBack(h, src, dst) ==
    [h EXCEPT !.files = @ \cup {src.s},
              !.copies = Append(@, [src |-> dst.s, dst |-> src.s])]

(* shutil.copyfile, lines 372-375 *)
CopyFile(h, src, dst) ==
    IF ~IsStr(src) \/ ~IsStr(dst) THEN Fail(h, "TypeError")
    ELSE IF ~(src.s \in h.files) THEN Fail(h, "IOError")
    ELSE IF src.s = dst.s THEN Fail(h, "SameFileError")
    ELSE [h EXCEPT !.files = @ \cup {dst.s},
                   !.copies = Append(@, [src |-> src.s, dst |-> dst.s])]

(* lines 369-375 *)
HarvestCopy(h, output) ==
    IF output.kind = "list" \/ ~ArgHas(h, output, "source") THEN h
    ELSE IF ~ArgIsDict(h, output) THEN Fail(h, "TypeError")
    ELSE LET source == Deref(h.cs, h.fs, ArgRef(output, "source"))
         IN  IF Lookup(source, "type").err # NoErr
             THEN Fail(h, Lookup(source, "type").err)
             ELSE IF source.d["type"] # W("path") THEN h
             ELSE IF Lookup(source, "value").err # NoErr
             THEN Fail(h, Lookup(source, "value").err)
             ELSE IF ~ArgHas(h, output, "target") THEN Fail(h, "KeyError")
             ELSE LET target == Deref(h.cs, h.fs, ArgRef(output, "target"))
                  IN  IF Lookup(target, "value").err # NoErr
                      THEN Fail(h, Lookup(target, "value").err)
                      ELSE CopyFile(h, source.d["value"], target.d["value"])

(* lines 376-378 *)
HarvestRecord(h, output) ==
    IF output.kind = "list" THEN Fail(h, "TypeError")
    ELSE IF ~ArgHas(h, output, "target") THEN Fail(h, "KeyError")
    ELSE IF ~ArgIsDict(h, output) THEN Fail(h, "TypeError")
    ELSE LET r == ArgRef(output, "target")
             target == Deref(h.cs, h.fs, r)
         IN  IF Lookup(target, "type").err # NoErr
             THEN Fail(h, Lookup(target, "type").err)
             ELSE IF target.d["type"] = W("data")
             THEN IF h.res[1] = None THEN Fail(h, "AttributeError")
                  ELSE LET c == Write(h, Sub(r, "value"),
                                      Str(Strip(Decode(h.res[1]).s)))
                       IN  [c EXCEPT !.retlist = Append(@, r)]
             ELSE [h EXCEPT !.retlist = Append(@, r)]

(* lines 368-378, one output *)
HarvestOutput(h, output) ==
    LET c == HarvestCopy(h, output)
    IN  IF c.err # NoErr THEN c ELSE HarvestRecord(c, output)

(* lines 366-380 *)
RECURSIVE HarvestOutputs(_, _, _)
HarvestOutputs(h, outputs, i) ==
    IF h.err # NoErr \/ i > Len(outputs) THEN h
    ELSE HarvestOutputs(HarvestOutput(h, outputs[i]), outputs, i + 1)

Harvest(cs, fs, files, copies, res, outputs) ==
    HarvestOutputs([err |-> NoErr, cs |-> cs, fs |-> fs, files |-> files,
                    copies |-> copies, res |-> res, retlist |-> <<>>],
                   outputs, 1)

(***************************************************************************)
(* Result propagator, run_task lines 231-249.  outlist holds the target    *)
(* records themselves.  Iterating a record (line 237) yields its keys in   *)
(* insertion order: every endpoint record of the model is written with     *)
(* type before value, and lines 338 and 377 add value to a record that     *)
(* has type already.                                                       *)
(***************************************************************************)
Push(olab, item) == Dict("_push" :> Dict(olab :> item))

InKey(d, key) == key \in DOMAIN d

Keys(out) ==
    IF IsDict(out)
    THEN (IF InKey(out.d, "type") THEN <<"type">> ELSE <<>>)
         \o (IF InKey(out.d, "value") THEN <<"value">> ELSE <<>>)
    ELSE <<>>

Min(a, b) == IF a < b THEN a ELSE b

(* lines 236-238: zip pairs labels and records up to the shorter list *)
RECURSIVE PushItems(_, _, _, _)
PushItems(olabels, outlist, i, mod_spec) ==
    IF i > Min(Len(olabels), Len(outlist)) THEN mod_spec
    ELSE PushItems(olabels, outlist, i + 1,
                   mod_spec \o [j \in 1..Len(Keys(outlist[i])) |->
                                  Push(olabels[i], W(Keys(outlist[i])[j]))])

(* lines 240-241 *)
PushRecords(olabels, outlist) ==
    [i \in 1..Len(outlist) |-> Push(olabels[1], outlist[i])]

OutputDictFirstPair(olabels, outlist) == Dict(olabels[1] :> outlist[1])

(* lines 244-246: a later pair replaces an earlier one with the same label *)
OutputDict(olabels, outlist) ==
    LET n == Min(Len(olabels), Len(outlist))
        last(lab) == CHOOSE i \in 1..n :
                        olabels[i] = lab /\ \A j \in (i + 1)..n : olabels[j] # lab
    IN  Dict([lab \in {olabels[i] : i \in 1..n} |-> outlist[last(lab)]])

FWAction(update_spec, mod_spec) == [update_spec |-> update_spec, mod_spec |-> mod_spec]

PropagateAlways(olabels, outlist, chunk_number) ==
    IF chunk_number # None
    THEN FWAction(None, List(PushRecords(olabels, outlist)))
    ELSE FWAction(OutputDict(olabels, outlist), None)

(* lines 231-249 *)
Propagate(olabels, outlist, chunk_number) ==
    IF Len(outlist) > 0
    THEN IF chunk_number # None
         THEN IF Len(olabels) > 1
              THEN FWAction(None, List(PushItems(olabels, outlist, 1, <<>>)))
              ELSE FWAction(None, List(PushRecords(olabels, outlist)))
         ELSE FWAction(OutputDict(olabels, outlist), None)
    ELSE FWAction(None, None)

(***************************************************************************)
(* DictMods.push and apply_mod of dict_mods.py.  The labels of the model   *)
(* hold no "->", so get_nested_dict returns the dictionary itself and the  *)
(* key.                                                                    *)
(***************************************************************************)
get_nested_dict(input_dict, key) == [d |-> input_dict, key |-> key]

push(input_dict, settings) ==
    IF \E k \in DOMAIN settings.d :
          LET n == get_nested_dict(input_dict, k)
          IN  n.key \in DOMAIN n.d.d /\ ~IsList(n.d.d[n.key])
    THEN [err |-> "AttributeError", d |-> input_dict]
    ELSE [err |-> NoErr,
          d |-> Dict([key \in DOMAIN input_dict.d \cup DOMAIN settings.d |->
                       IF key \in DOMAIN settings.d
                       THEN IF key \in DOMAIN input_dict.d
                            THEN List(Append(input_dict.d[key].l, settings.d[key]))
                            ELSE List(<<settings.d[key]>>)
                       ELSE input_dict.d[key]])]

apply_mod(modification, obj) ==
    IF DOMAIN modification.d = {"_push"}
    THEN push(obj, modification.d["_push"])
    ELSE [err |-> "ValueError", d |-> obj]

RECURSIVE ApplyMods(_, _, _)
ApplyMods(mod_spec, i, obj) ==
    IF i > Len(mod_spec) THEN [err |-> NoErr, d |-> obj]
    ELSE LET r == apply_mod(mod_spec[i], obj)
         IN  IF r.err # NoErr THEN r ELSE ApplyMods(mod_spec, i + 1, r.d)

(* The orchestrator's use of update_spec: spec.update(update_spec) *)
ApplyUpdate(update_spec, obj) ==
    Dict([key \in DOMAIN obj.d \cup DOMAIN update_spec.d |->
           IF key \in DOMAIN update_spec.d THEN update_spec.d[key] ELSE obj.d[key]])

(***************************************************************************)
(* ForeachTask.run_task, lines 409-455                                     *)
(***************************************************************************)
(* l[i:j] of a list, indices from 0 *)
Slice(l, i, j) == SubSeq(l, i + 1, IF j < Len(l) THEN j ELSE Len(l))

(* lines 410-412 *)
split_list(self) == IF IsStr(self.split) THEN <<KeyOf(self.split)>> ELSE self.split.l

(* lines 417-420 *)
InInputs(self, split) ==
    IF IsList(self.task.inputs)
    THEN \E i \in 1..Len(self.task.inputs.l) : self.task.inputs.l[i] = split
    ELSE IsStr(self.task.inputs) /\ KeyOf(self.task.inputs) = split

(* len(range(0, lensplit, chunklen)) *)
RangeLen(lensplit, chunklen) == (lensplit + chunklen - 1) \div chunklen

(* lines 429-434 *)
ChunkLen(nchunks, lensplit) ==
    LET n == IF nchunks = None \/ nchunks = Num(0) THEN lensplit ELSE nchunks.n
    IN  (lensplit \div n) + (IF lensplit % n > 0 THEN 1 ELSE 0)

(* lines 436 and 439-440: the slices of one split field, put under its label *)
ChunkOf(split, split_field, chunklen, k) ==
    split :> List(Slice(split_field, (k - 1) * chunklen, (k - 1) * chunklen + chunklen))

(* lines 414-440: st holds err, reflen, chunklen and chunks *)
RECURSIVE SplitLoop(_, _, _, _)
SplitLoop(self, fs, i, st) ==
    IF st.err # NoErr \/ i > Len(split_list(self)) THEN st
    ELSE LET split == split_list(self)[i]
         IN  IF ~(split \in DOMAIN fs.d) THEN [st EXCEPT !.err = "KeyError"]
             ELSE IF ~IsList(fs.d[split]) THEN [st EXCEPT !.err = "AssertionError"]
             ELSE IF self.task.inputs = None THEN [st EXCEPT !.err = "KeyError"]
             ELSE IF ~InInputs(self, split) THEN [st EXCEPT !.err = "AssertionError"]
             ELSE LET split_field == fs.d[split].l
                      lensplit == Len(split_field)
                  IN  IF st.reflen = 0
                      THEN IF lensplit = 0 THEN [st EXCEPT !.err = "AssertionError"]
                           ELSE LET chunklen == ChunkLen(self.number_of_chunks, lensplit)
                                IN  SplitLoop(self, fs, i + 1,
                                      [err |-> NoErr, reflen |-> lensplit,
                                       chunklen |-> chunklen, bound |-> TRUE,
                                       chunks |-> [k \in 1..RangeLen(lensplit, chunklen) |->
                                           ChunkOf(split, split_field, chunklen, k)]])
                      ELSE IF lensplit # st.reflen
                           THEN [st EXCEPT !.err = "AssertionError"]
                           ELSE SplitLoop(self, fs, i + 1,
                                  [st EXCEPT !.chunks =
                                      [k \in 1..Len(st.chunks) |->
                                          ChunkOf(split, split_field, st.chunklen, k)
                                              @@ st.chunks[k]]])

(* line 454 *)
Firework(t, spec, name) == [tasks |-> <<t>>, spec |-> spec, name |-> name]

(* lines 446-448: the copy of the spec with the split fields replaced *)
ChunkSpec(fs, chunk) ==
    Dict([key \in DOMAIN fs.d |-> IF key \in DOMAIN chunk THEN chunk[key] ELSE fs.d[key]])

(* lines 445-454, one child; index counts from 0 *)
Child(self, fs, chunk, index) ==
    LET spec == ChunkSpec(fs, chunk)
        t == [self.task EXCEPT !.chunk_number = Num(index)]
        indexed == IF self.chunk_index_spec # None /\ IsStr(self.chunk_index_spec)
                        /\ Len(self.chunk_index_spec.s) > 0
                   THEN Dict((KeyOf(self.chunk_index_spec) :> Num(index)) @@ spec.d)
                   ELSE spec
    IN  Firework(t, indexed, "ForeachTask " \o ToString(index))

(* lines 409-455: the detours of the returned FWAction *)
ForeachRunTask(self, fs) ==
    IF ~(IsStr(self.split) \/ IsList(self.split))
    THEN [err |-> "AssertionError", chunks |-> <<>>, fireworks |-> <<>>]
    ELSE LET st == SplitLoop(self, fs, 1,
                     [err |-> NoErr, reflen |-> 0, chunklen |-> 0, bound |-> FALSE,
                      chunks |-> <<>>])
         IN  IF st.err # NoErr
             THEN [err |-> st.err, chunks |-> <<>>, fireworks |-> <<>>]
             ELSE IF ~st.bound
             THEN [err |-> "UnboundLocalError", chunks |-> <<>>, fireworks |-> <<>>]
             ELSE [err |-> NoErr, chunks |-> st.chunks,
                   fireworks |-> [k \in 1..Len(st.chunks) |->
                                     Child(self, fs, st.chunks[k], k - 1)]]

NoForeach == [self |-> None, fw_spec |-> None, pc |-> "off", err |-> NoErr,
              chunks |-> <<>>, fireworks |-> <<>>]

(***************************************************************************)
(* State                                                                   *)
(***************************************************************************)
VARIABLES
    task,         \* the CommandLineTask: command_spec, inputs, outputs, chunk_number, env
    task0,        \* the task as it was constructed
    fw_snapshot,  \* the workflow-spec snapshot the orchestrator holds
    fw_spec,      \* the dictionary handed to run_task
    wf_spec,      \* the workflow spec the returned state updates are applied to
    pc,           \* position of the invocation
    run,          \* number of invocations launched
    loc,          \* the locals of run_task and command_line_tool
    os,           \* files, identifiers drawn, copies made, expressions executed
    proc,         \* what the child process was given (Popen's stdin, communicate's
                  \* input) and what it did
    result,       \* what the invocation returned or raised
    hist,         \* one entry per finished invocation
    foreach       \* the ForeachTask, the spec it is run on and what it returned

vars == <<task, task0, fw_snapshot, fw_spec, wf_spec, pc, run, loc, os, proc, result, hist,
          foreach>>

BlankLoc ==
    [inputs |-> <<>>, outputs |-> <<>>, command |-> <<>>, aliased |-> FALSE,
     arglist |-> <<>>, stdin |-> None, stdout |-> None, stderr |-> None,
     stdininp |-> None, res |-> <<>>, retlist |-> <<>>, outlist |-> <<>>]

NoProc == [spawned |-> FALSE, returncode |-> 0, wout |-> <<>>, werr |-> <<>>,
           stdin |-> None, input |-> None]

NoResult == [returned |-> FALSE, action |-> FWAction(None, None),
             error |-> [name |-> NoErr, arg |-> None]]

Raised(name, arg) == [returned |-> FALSE, action |-> FWAction(None, None),
                      error |-> [name |-> name, arg |-> arg]]

Returned(action) == [returned |-> TRUE, action |-> action,
                     error |-> [name |-> NoErr, arg |-> None]]

(* what is kept of a finished invocation: the argument vector it built,  *)
(* the records it harvested and whether it returned                       *)
Entry(l, r) == [argv |-> l.arglist, outlist |-> l.outlist, returned |-> r.returned]

ilabels == IF task.inputs = None THEN <<>> ELSE task.inputs.l
olabels == IF task.outputs = None THEN <<>> ELSE task.outputs.l

(***************************************************************************)
(* Actions                                                                 *)
(***************************************************************************)

(* the invocation raises: the exception leaves run_task *)
Raise(l, name, arg) ==
    /\ pc' = "failed"
    /\ result' = Raised(name, arg)
    /\ hist' = Append(hist, Entry(l, Raised(name, arg)))

(* The orchestrator runs the task on its snapshot of the workflow spec *)
Launch ==
    /\ pc \in {"idle", "applied", "failed"}
    /\ run < MaxRuns
    /\ run' = run + 1
    /\ fw_spec' = fw_snapshot
    /\ loc' = BlankLoc
    /\ proc' = NoProc
    /\ result' = NoResult
    /\ pc' = "resolve"
    /\ UNCHANGED <<foreach, task, task0, fw_snapshot, wf_spec, os, hist>>

(* run_task lines 78-129 *)
Resolve ==
    /\ pc = "resolve"
    /\ LET cmd_spec == task.command_spec
           i == ResolveLabels(cmd_spec, fw_spec, ilabels, 1, <<>>)
           o == ResolveLabels(cmd_spec, fw_spec, olabels, 1, <<>>)
           c == LocalCommand(cmd_spec)
           e == IF i.err # NoErr THEN i.err
                ELSE IF o.err # NoErr THEN o.err ELSE c.err
           l == [loc EXCEPT !.inputs = i.ios, !.outputs = o.ios,
                            !.command = c.command, !.aliased = c.aliased]
       IN  /\ loc' = l
           /\ IF e # NoErr
              THEN Raise(l, e, None)
              ELSE pc' = "expand" /\ UNCHANGED <<result, hist>>
    /\ UNCHANGED <<foreach, task, task0, fw_snapshot, fw_spec, wf_spec, run, os, proc>>

(* run_task lines 151-227 *)
ExpandEnv ==
    /\ pc = "expand"
    /\ LET x == Expand(fw_spec, task.env, loc.command, loc.aliased)
           l == [loc EXCEPT !.command = x.command, !.aliased = x.aliased]
       IN  /\ loc' = l
           /\ os' = [os EXCEPT !.log = @ \o x.log]
           /\ IF x.err # NoErr
              THEN Raise(l, x.err, None)
              ELSE pc' = "build" /\ UNCHANGED <<result, hist>>
    /\ UNCHANGED <<foreach, task, task0, fw_snapshot, fw_spec, wf_spec, run, proc>>

(* command_line_tool lines 288-358 *)
BuildArgs ==
    /\ pc = "build"
    /\ LET b == Build(task.command_spec, fw_spec, os.files, os.uuid,
                      loc.command, loc.aliased, loc.inputs, loc.outputs)
           l == [loc EXCEPT !.arglist = b.arglist, !.stdin = b.stdin,
                            !.stdout = b.stdout, !.stderr = b.stderr,
                            !.stdininp = b.stdininp]
       IN  /\ loc' = l
           /\ task' = [task EXCEPT !.command_spec = b.cs]
           /\ fw_spec' = b.fs
           /\ os' = [os EXCEPT !.files = b.files, !.uuid = b.uuid]
           /\ IF b.err # NoErr
              THEN Raise(l, b.err, None)
              ELSE pc' = "spawn" /\ UNCHANGED <<result, hist>>
    /\ UNCHANGED <<foreach, task0, fw_snapshot, wf_spec, run, proc>>

(* command_line_tool lines 360-364 *)
Execute ==
    /\ pc = "spawn"
    /\ \E rc \in ExitCodes, wout \in StdoutTexts, werr \in StderrTexts :
         LET p == [spawned |-> TRUE, returncode |-> rc, wout |-> wout, werr |-> werr,
                   stdin |-> loc.stdin, input |-> loc.stdininp]
             l == [loc EXCEPT !.res = Communicate(loc.stdout, loc.stderr, wout, werr)]
         IN  /\ proc' = p
             /\ loc' = l
             /\ IF rc # 0
                THEN Raise(l, "RuntimeError", ErrText(l.res))
                ELSE pc' = "harvest" /\ UNCHANGED <<result, hist>>
    /\ UNCHANGED <<foreach, task, task0, fw_snapshot, fw_spec, wf_spec, run, os>>

(* command_line_tool lines 366-380 *)
HarvestStep ==
    /\ pc = "harvest"
    /\ LET h == Harvest(task.command_spec, fw_spec, os.files, os.copies,
                        loc.res, loc.outputs)
           l == [loc EXCEPT !.retlist = h.retlist]
       IN  /\ loc' = l
           /\ task' = [task EXCEPT !.command_spec = h.cs]
           /\ fw_spec' = h.fs
           /\ os' = [os EXCEPT !.files = h.files, !.copies = h.copies]
           /\ IF h.err # NoErr
              THEN Raise(l, h.err, None)
              ELSE pc' = "return" /\ UNCHANGED <<result, hist>>
    /\ UNCHANGED <<foreach, task0, fw_snapshot, wf_spec, run, proc>>

(* run_task lines 229-249 *)
Return ==
    /\ pc = "return"
    /\ LET outlist == [i \in 1..Len(loc.retlist) |->
                         Deref(task.command_spec, fw_spec, loc.retlist[i])]
           l == [loc EXCEPT !.outlist = outlist]
           r == Returned(Propagate(olabels, outlist, task.chunk_number))
       IN  /\ loc' = l
           /\ IF /\ Len(outlist) > 0
                 /\ task.chunk_number # None
                 /\ Len(olabels) > 1
                 /\ Len(olabels) # Len(outlist)
              THEN Raise(l, "AssertionError", None)
              ELSE /\ result' = r
                   /\ hist' = Append(hist, Entry(l, r))
                   /\ pc' = "done"
    /\ UNCHANGED <<foreach, task, task0, fw_snapshot, fw_spec, wf_spec, run, os, proc>>

(* The orchestrator applies the returned FWAction to the workflow spec *)
ApplyAction ==
    /\ pc = "done"
    /\ LET a == result.action
           u == IF a.update_spec = None THEN wf_spec
                ELSE ApplyUpdate(a.update_spec, wf_spec)
           m == IF a.mod_spec = None THEN [err |-> NoErr, d |-> u]
                ELSE ApplyMods(a.mod_spec.l, 1, u)
       IN  /\ wf_spec' = m.d
           /\ pc' = IF m.err # NoErr THEN "rejected" ELSE "applied"
    /\ UNCHANGED <<foreach, task, task0, fw_snapshot, fw_spec, run, loc, os, proc, result, hist>>

Next ==
    \/ Launch
    \/ Resolve
    \/ ExpandEnv
    \/ BuildArgs
    \/ Execute
    \/ HarvestStep
    \/ Return
    \/ ApplyAction

(***************************************************************************)
(* The tasks and workflow specs the model starts from                      *)
(***************************************************************************)
Endpoint(type, value) == Dict([type |-> W(type), value |-> value])

InData == Dict([source |-> Endpoint("data", W("hello"))])
InCount == Dict([binding |-> Dict([prefix |-> W("-n"), separator |-> W("=")]),
                 source |-> Endpoint("data", Num(4))])
InFeed == Dict([source |-> Endpoint("data", W("text")),
                target |-> Dict([type |-> W("stdin")])])

(* inputs that claim standard input: from a file, from a number, from a  *)
(* source of a type that is neither path nor data                        *)
InStdinFile(path) == Dict([source |-> Endpoint("path", Str(path)),
                           target |-> Dict([type |-> W("stdin")])])
InStdinNum == Dict([source |-> Endpoint("data", Num(4)),
                    target |-> Dict([type |-> W("stdin")])])
InStdinId == Dict([source |-> Endpoint("identifier", W("x")),
                   target |-> Dict([type |-> W("stdin")])])

(* a path argument with a prefix, and a data argument with no text *)
InFile == Dict([binding |-> Dict([prefix |-> W("--in")]),
                source |-> Endpoint("path", W("in.txt"))])
InEmpty == Dict([source |-> Endpoint("data", Str(<<>>))])

(* entries whose fields name workflow-spec keys, and entries with a field *)
(* that is neither a string nor a record                                 *)
InRefList == Dict([source |-> W("srcs")])
InRefs == Dict([binding |-> W("bnd"), source |-> W("src")])
InBadSource == Dict([source |-> Num(3)])
InBadTarget == Dict([source |-> Endpoint("data", W("hello")),
                     target |-> List(<<W("stdin")>>)])

OutCap == Dict([target |-> Dict([type |-> W("data")])])
OutDir == Dict([target |-> Endpoint("path", Str(<<"/", "d">>))])
OutLog == Dict([source |-> Dict([type |-> W("stdout")]),
                target |-> Endpoint("path", Str(<<"out.txt">>))])
OutErr == Dict([source |-> Dict([type |-> W("stderr")]),
                target |-> Endpoint("path", Str(<<"/", "w", "/", "err.txt">>))])
OutRef == Dict([target |-> W("tkey")])

(* an output to a file whose source is a value naming an existing file *)
OutFromData == Dict([source |-> Endpoint("data", Str(<<"/", "w", "/", "in.txt">>)),
                     target |-> Endpoint("path", Str(<<"o5.txt">>))])

(* endpoints naming the file repository, an output without a target and *)
(* an output to a file with an empty name                               *)
InRepository == Dict([source |-> Endpoint("identifier", W("x"))])
OutRepository == Dict([target |-> Endpoint("identifier", W("y"))])
OutNoTarget == Dict([source |-> Dict([type |-> W("stdout")])])
OutEmptyPath == Dict([target |-> Endpoint("path", Str(<<>>))])

(* outputs to a file: written by the process itself elsewhere and copied, *)
(* without and with a binding; with a source of another type; with a     *)
(* binding and no source                                                 *)
OutCopy == Dict([source |-> Endpoint("path", Str(<<"/", "w", "/", "in.txt">>)),
                 target |-> Endpoint("path", Str(<<"/", "w", "/", "o.txt">>))])
OutCopyBound == Dict([binding |-> Dict([prefix |-> W("-o")]),
                      source |-> Endpoint("path", Str(<<"/", "w", "/", "in.txt">>)),
                      target |-> Endpoint("path", Str(<<"o2.txt">>))])
OutOther == Dict([source |-> Dict([type |-> W("identifier")]),
                  target |-> Endpoint("path", Str(<<"o3.txt">>))])
OutBound == Dict([binding |-> Dict([prefix |-> W("-o"), separator |-> W("=")]),
                  target |-> Endpoint("path", Str(<<"/", "w", "/", "o4.txt">>))])

CommandSpec(command) ==
    Dict("command" :> command @@ "msg" :> InData @@ "cnt" :> InCount
         @@ "feed" :> InFeed @@ "cap" :> OutCap @@ "dir" :> OutDir
         @@ "log" :> OutLog @@ "errlog" :> OutErr @@ "ref" :> OutRef
         @@ "many" :> W("items") @@ "sref" :> InRefList @@ "sone" :> InRefs
         @@ "bad" :> InBadSource @@ "badl" :> InBadTarget
         @@ "file" :> InFile @@ "nil" :> InEmpty
         @@ "fin" :> InStdinFile(<<"/", "w", "/", "in.txt">>)
         @@ "fin2" :> InStdinFile(<<"/", "w", "/", "in2.txt">>)
         @@ "fnum" :> InStdinNum @@ "fid" :> InStdinId
         @@ "cp" :> OutCopy @@ "cpb" :> OutCopyBound
         @@ "oid" :> OutOther @@ "obnd" :> OutBound
         @@ "pid" :> InRepository @@ "tid" :> OutRepository
         @@ "notgt" :> OutNoTarget @@ "empty" :> OutEmptyPath
         @@ "oval" :> OutFromData)

Task(command, inputs, outputs, chunk_number, env) ==
    [command_spec |-> CommandSpec(command), inputs |-> inputs,
     outputs |-> outputs, chunk_number |-> chunk_number, env |-> env]

(* environment profiles, the schema of the comment at lines 134-149 *)
Eval(expr) == Dict([eval |-> W(expr)])

ProfFull ==
    Dict([init |-> List(<<W("import-os")>>),
          cmd |-> Dict([foo |-> Dict([init |-> W("load-foo"),
                                      prefix |-> List(<<W("mpirun"), Eval("mpiopts")>>)])])])
ProfString ==
    Dict([cmd |-> Dict([foo |-> Dict([prefix |-> Str(<<"srun", " ", " ", "-q">>)])])])
ProfBytes ==
    Dict([cmd |-> Dict([foo |-> Dict([prefix |->
            List(<<Eval("rawopts"), Eval("blank"), Str(<<"time", "\n">>)>>)])])])
ProfNoPrefix ==
    Dict([init |-> W("setup"),
          cmd |-> Dict([foo |-> Dict([init |-> List(<<W("load-a"), W("load-b")>>)])])])
ProfBadEval ==
    Dict([cmd |-> Dict([foo |-> Dict([prefix |-> List(<<W("mpirun"), Eval("nprocs")>>)])])])
ProfNoCmd == Dict([init |-> W("setup")])
ProfNoEval ==
    Dict([cmd |-> Dict([foo |-> Dict([prefix |-> Dict([exec |-> W("mpiopts")])])])])
ProfBadType ==
    Dict([cmd |-> Dict([foo |-> Dict([prefix |-> List(<<W("mpirun"), Num(4)>>)])])])

Profiles == {ProfFull, ProfString, ProfBytes, ProfNoPrefix, ProfBadEval, ProfNoCmd,
             ProfNoEval, ProfBadType}

BaseSpec ==
    "tkey" :> Dict([type |-> W("data")])
    @@ "srcs" :> List(<<Endpoint("data", W("first")), Endpoint("data", W("second"))>>)
    @@ "src" :> Endpoint("data", W("one"))
    @@ "bnd" :> Dict([prefix |-> W("-f")])

FwSpec(prof) == Dict(BaseSpec @@ "_fw_env" :> Dict([prof |-> prof]))
FwSpecNoEnv == Dict(BaseSpec)

WfSpec == Dict("cap" :> List(<<W("old")>>) @@ "log" :> List(<<>>))

OutputLabels == {"cap", "dir", "log", "errlog", "ref"}
MaxOutputs == 2

OutputLists(m, n) == {List(s) : s \in UNION {[1..k -> OutputLabels] : k \in m..n}}
InputLists == {None, List(<<"msg", "cnt">>), List(<<"feed">>)}
ChunkNumbers == {None, Num(0)}
Commands == {List(<<W("foo")>>), W("foo"), List(<<W("foo"), W("-v")>>), List(<<W("bar")>>)}

(* tasks that vary the declared inputs and outputs: every input list with *)
(* at most one output, and every list of outputs without inputs           *)
IOConfigs ==
    {[task |-> Task(List(<<W("echo")>>), i, o, c, None), fw |-> FwSpecNoEnv] :
        i \in InputLists, o \in {None} \cup OutputLists(1, 1), c \in ChunkNumbers}
    \cup
    {[task |-> Task(List(<<W("echo")>>), None, o, c, None), fw |-> FwSpecNoEnv] :
        o \in OutputLists(2, MaxOutputs), c \in ChunkNumbers}

(* tasks that vary the command and the environment profile *)
EnvConfigs ==
    {[task |-> Task(cmd, io[1], io[2], None, x[1]), fw |-> x[2]] :
        cmd \in Commands,
        io \in {<<None, None>>, <<List(<<"msg">>), List(<<"cap">>)>>},
        x \in ({<<W("prof"), FwSpec(p)>> : p \in Profiles}
               \cup {<<None, FwSpec(ProfFull)>>, <<W("other"), FwSpec(ProfFull)>>,
                      <<W("prof"), FwSpecNoEnv>>})}

(* workflow-spec lists for a label given as a string: records with and   *)
(* without a source field, a raw string and a raw number                  *)
(* an item of a workflow-spec list that can serve as an output *)
OutItem == Dict([source |-> Dict([type |-> W("stdout")]),
                 target |-> Dict([type |-> W("data")])])

ItemLists ==
    {<<InData, Endpoint("data", W("b"))>>,
     <<Endpoint("data", W("b")), InCount>>,
     <<W("raw")>>,
     <<InData, Num(7)>>,
     <<OutItem>>,
     <<OutItem, OutCap>>,
     <<>>}

FwItems(l) == Dict(BaseSpec @@ "items" :> List(l))

(* tasks whose input or output label is given as a string *)
ListConfigs ==
    {[task |-> Task(List(<<W("echo")>>), io[1], io[2], None, None), fw |-> FwItems(l)] :
        io \in {<<List(<<"many">>), None>>, <<List(<<"msg", "many">>), None>>,
                <<None, List(<<"many">>)>>},
        l \in ItemLists}

(* tasks whose entries name workflow-spec keys in their fields *)
FieldConfigs ==
    {[task |-> Task(List(<<W("echo")>>), i, o, None, None), fw |-> FwSpecNoEnv] :
        i \in {List(<<"sref", "sone">>), List(<<"sone", "bad", "msg">>),
               List(<<"msg", "badl">>), List(<<"file", "nil", "cnt">>)},
        o \in {None, List(<<"ref">>), List(<<"bad">>)}}

(* tasks whose inputs claim standard input, one or two of them *)
StdinLists ==
    {List(<<"fin">>), List(<<"msg", "fnum">>), List(<<"fid">>), List(<<"feed", "fin">>),
     List(<<"fin", "feed">>), List(<<"feed", "fnum">>), List(<<"fin", "fin2">>)}

StdinConfigs ==
    {[task |-> Task(List(<<W("echo")>>), i, o, None, None), fw |-> FwSpecNoEnv] :
        i \in StdinLists, o \in {None, List(<<"cap">>)}}

(* tasks with one output to a file *)
FileOutputConfigs ==
    {[task |-> Task(List(<<W("echo")>>), i, List(<<o>>), None, None), fw |-> FwSpecNoEnv] :
        i \in {None, List(<<"msg">>)}, o \in {"cp", "cpb", "oid", "obnd"}}

(* tasks that declare something the builder does not support, alone or *)
(* after inputs and outputs it does support                            *)
UnsupportedConfigs ==
    {[task |-> Task(List(<<W("echo")>>), io[1], io[2], None, None), fw |-> FwSpecNoEnv] :
        io \in {<<List(<<"pid">>), None>>, <<List(<<"msg", "pid">>), List(<<"cap">>)>>,
                <<List(<<"feed", "pid">>), List(<<"log">>)>>,
                <<None, List(<<"tid">>)>>, <<List(<<"msg">>), List(<<"log", "tid">>)>>,
                <<None, List(<<"notgt">>)>>, <<List(<<"feed">>), List(<<"cap", "notgt">>)>>,
                <<None, List(<<"empty">>)>>, <<List(<<"msg">>), List(<<"errlog", "empty">>)>>}}

(* tasks with outputs to copy after the process has exited *)
CopyConfigs ==
    {[task |-> Task(List(<<W("echo")>>), None, o, None, None), fw |-> FwSpecNoEnv] :
        o \in {List(<<"oval">>), List(<<"cp", "cpb">>), List(<<"cpb", "oval">>),
               List(<<"cp", "cap">>)}}

Configs ==
    IOConfigs \cup EnvConfigs \cup ListConfigs \cup FieldConfigs \cup StdinConfigs
        \cup FileOutputConfigs \cup UnsupportedConfigs \cup CopyConfigs

Init ==
    /\ \E cfg \in Configs : task = cfg.task /\ fw_snapshot = cfg.fw
    /\ task0 = task
    /\ fw_spec = fw_snapshot
    /\ wf_spec = WfSpec
    /\ pc = "idle"
    /\ run = 0
    /\ loc = BlankLoc
    /\ os = [files |-> {<<"/", "w", "/", "in.txt">>, <<"/", "w", "/", "in2.txt">>}, uuid |-> 0,
             copies |-> <<>>, log |-> <<>>]
    /\ proc = NoProc
    /\ result = NoResult
    /\ hist = <<>>
    /\ foreach = NoForeach

Spec == Init /\ [][Next]_vars

(***************************************************************************)
(* A ForeachTask run on its own: the task and the spec are drawn from the  *)
(* sets below and the one action is the call of run_task.                  *)
(***************************************************************************)
MaxLen == 5
MaxChunks == 6

NumList(a, n) == List([i \in 1..n |-> Num(a + i)])

SplitParams == {W("xs"), List(<<"xs">>), List(<<"xs", "ys">>), List(<<"xs", "zs">>),
                List(<<>>), Num(1)}
InnerInputs == {List(<<"xs", "ys">>), W("xs"), List(<<"ys">>), None}
NumbersOfChunks == {None} \cup {Num(n) : n \in 0..MaxChunks}
ChunkIndexSpecs == {None, W("idx"), W("xs"), Num(1)}

ForeachSpecs ==
    {Dict("xs" :> NumList(0, n) @@ "ys" :> NumList(10, m) @@ "zs" :> Num(0)) :
        n \in 0..MaxLen, m \in 0..MaxLen}

ForeachTasks ==
    {[task |-> Task(List(<<W("echo")>>), i, None, None, None), split |-> s,
      number_of_chunks |-> n, chunk_index_spec |-> c] :
        i \in InnerInputs, s \in SplitParams, n \in NumbersOfChunks,
        c \in ChunkIndexSpecs}

InitForeach ==
    /\ task = Task(List(<<W("echo")>>), None, None, None, None)
    /\ fw_snapshot = FwSpecNoEnv
    /\ task0 = task
    /\ fw_spec = fw_snapshot
    /\ wf_spec = WfSpec
    /\ pc = "idle"
    /\ run = 0
    /\ loc = BlankLoc
    /\ os = [files |-> {}, uuid |-> 0, copies |-> <<>>, log |-> <<>>]
    /\ proc = NoProc
    /\ result = NoResult
    /\ hist = <<>>
    /\ \E self \in ForeachTasks, fs \in ForeachSpecs :
          /\ fs.d["xs"].l = <<>> => fs.d["ys"].l = <<>>
          /\ Len(fs.d["ys"].l) \in {Len(fs.d["xs"].l), MaxLen}
          /\ foreach = [self |-> self, fw_spec |-> fs, pc |-> "idle", err |-> NoErr,
                        chunks |-> <<>>, fireworks |-> <<>>]

(* lines 409-455 *)
ForeachRun ==
    /\ foreach.pc = "idle"
    /\ LET r == ForeachRunTask(foreach.self, foreach.fw_spec)
       IN  foreach' = [foreach EXCEPT !.pc = IF r.err # NoErr THEN "failed" ELSE "done",
                                      !.err = r.err, !.chunks = r.chunks,
                                      !.fireworks = r.fireworks]
    /\ UNCHANGED <<task, task0, fw_snapshot, fw_spec, wf_spec, pc, run, loc, os, proc,
                   result, hist>>

NextForeach == ForeachRun

SpecForeach == InitForeach /\ [][NextForeach]_vars

(***************************************************************************)
(* Properties                                                              *)
(***************************************************************************)
Finished == pc \in {"done", "applied", "rejected", "failed"}
Chunked == task.chunk_number # None

(* the IOEntry a label was declared with *)
Declared(label) == task0.command_spec.d[label]

(* the endpoint the declaration of a label resolves to, None when absent *)
DeclaredEndpoint(label, key) ==
    IF ~HasKey(Declared(label), key) THEN None
    ELSE IF IsStr(Declared(label).d[key])
         THEN fw_snapshot.d[KeyOf(Declared(label).d[key])]
         ELSE Declared(label).d[key]

DeclaredType(label, key) ==
    IF HasKey(DeclaredEndpoint(label, key), "type")
    THEN DeclaredEndpoint(label, key).d["type"]
    ELSE None

(* some declared output sends standard error to a file *)
StderrToFile ==
    \E i \in 1..Len(olabels) :
        /\ DeclaredType(olabels[i], "target") = W("path")
        /\ DeclaredType(olabels[i], "source") = W("stderr")

ExitedNonZero == proc.spawned /\ proc.returncode # 0

(* C1 as stated: whenever the child process exits with a non-zero status, *)
(* whatever inputs and outputs are declared, the invocation fails with an *)
(* execution error carrying the text the process wrote to standard error, *)
(* no OutputRecord is produced and no state update is returned.           *)
C1_Original ==
    ExitedNonZero =>
        /\ pc = "failed"
        /\ result.error.name = "RuntimeError"
        /\ result.error.arg # None
        /\ result.error.arg.s = proc.werr
        /\ ~result.returned
        /\ loc.retlist = <<>>
        /\ loc.outlist = <<>>

(* C1 as amended: on a non-zero exit status the invocation fails with an  *)
(* execution error, produces no OutputRecord and returns no state update; *)
(* the error carries the bytes the process wrote to standard error when   *)
(* no declared output sends standard error to a file (target type path    *)
(* with source type stderr), and carries None when one does.              *)
C1_ExitStatusFails ==
    ExitedNonZero =>
        /\ pc = "failed"
        /\ result.error.name = "RuntimeError"
        /\ result.error.arg = IF StderrToFile THEN None ELSE Bytes(proc.werr)
        /\ ~result.returned
        /\ loc.retlist = <<>>
        /\ loc.outlist = <<>>

C1_Witness ==
    /\ ExitedNonZero
    /\ pc = "failed"
    /\ proc.returncode = 2
    /\ result.error.arg = Bytes(<<"boom", "\n">>)
    /\ Len(ilabels) > 0
    /\ Len(olabels) > 0

(* the records an invocation harvested for a label, in declared order *)
RECURSIVE Emitted(_, _, _)
Emitted(outlist, label, i) ==
    IF i > Min(Len(olabels), Len(outlist)) THEN <<>>
    ELSE (IF olabels[i] = label THEN <<outlist[i]>> ELSE <<>>)
         \o Emitted(outlist, label, i + 1)

(* the list the workflow spec held under a label before any invocation *)
Prior(label) == IF HasKey(WfSpec, label) THEN WfSpec.d[label].l ELSE <<>>

BothReturned == Len(hist) = 2 /\ hist[1].returned /\ hist[2].returned

(* C2: after two chunked invocations have completed and their append     *)
(* operations have been applied in completion order, the list under each *)
(* output label holds the elements it held before, followed by the       *)
(* outputs of the first invocation for that label, followed by those of  *)
(* the second.                                                            *)
C2_BothOutputsAppended ==
    (Chunked /\ BothReturned /\ pc \in {"applied", "rejected"}) =>
        \A i \in 1..Len(olabels) :
            /\ HasKey(wf_spec, olabels[i])
            /\ IsList(wf_spec.d[olabels[i]])
            /\ wf_spec.d[olabels[i]].l =
                   Prior(olabels[i]) \o Emitted(hist[1].outlist, olabels[i], 1)
                                     \o Emitted(hist[2].outlist, olabels[i], 1)

(* C3: with a chunk index and k >= 1 declared outputs the returned state *)
(* update consists of exactly k append operations, the i-th appending    *)
(* the i-th output's record to the i-th declared output label.           *)
C3_OneAppendPerOutput ==
    (Chunked /\ pc = "done" /\ Len(olabels) >= 1) =>
        /\ result.action.update_spec = None
        /\ result.action.mod_spec =
               List([i \in 1..Len(olabels) |->
                       Dict("_push" :> Dict(olabels[i] :> loc.outlist[i]))])

Labels == {olabels[i] : i \in 1..Len(olabels)}

(* C4 as stated: without a chunk index and with at least one declared    *)
(* output, the returned state update is a replace mapping with exactly   *)
(* one entry per declared output label, mapping each label to the value  *)
(* of that output's record; once applied, the workflow spec holds that   *)
(* value under the label.                                                 *)
C4_Original ==
    (~Chunked /\ Len(olabels) >= 1 /\ pc \in {"done", "applied"}) =>
        /\ result.action.mod_spec = None
        /\ IsDict(result.action.update_spec)
        /\ DOMAIN result.action.update_spec.d = Labels
        /\ \A i \in 1..Len(olabels) :
              result.action.update_spec.d[olabels[i]] = loc.outlist[i].d["value"]
        /\ pc = "applied" =>
              \A i \in 1..Len(olabels) :
                  /\ HasKey(wf_spec, olabels[i])
                  /\ wf_spec.d[olabels[i]] = loc.outlist[i].d["value"]

(* C4 as amended: without a chunk index and with at least one declared   *)
(* output, the returned state update is a replace mapping with exactly   *)
(* one entry per declared output label, mapping each label to that       *)
(* output's record (the target record, with its type and its value);     *)
(* once applied, the workflow spec holds that record under the label in  *)
(* place of whatever it held, and its other entries are as before.       *)
C4_ReplacePerLabel ==
    (~Chunked /\ Len(olabels) >= 1 /\ pc \in {"done", "applied"}) =>
        /\ result.action.mod_spec = None
        /\ IsDict(result.action.update_spec)
        /\ DOMAIN result.action.update_spec.d = Labels
        /\ \A i \in 1..Len(olabels) :
              /\ result.action.update_spec.d[olabels[i]] = loc.outlist[i]
              /\ DOMAIN loc.outlist[i].d = {"type", "value"}
        /\ pc = "applied" =>
              /\ \A i \in 1..Len(olabels) :
                    /\ HasKey(wf_spec, olabels[i])
                    /\ wf_spec.d[olabels[i]] = loc.outlist[i]
              /\ \A key \in DOMAIN WfSpec.d \ Labels :
                    /\ HasKey(wf_spec, key)
                    /\ wf_spec.d[key] = WfSpec.d[key]

C4_Witness ==
    /\ ~Chunked
    /\ pc = "applied"
    /\ olabels = <<"dir", "cap">>
    /\ wf_spec.d["cap"] = Endpoint("data", W("hello"))
    /\ wf_spec.d["dir"] = Endpoint("path", Str(<<"/", "d", "/", "u1">>))
    /\ WfSpec.d["cap"] = List(<<W("old")>>)

(* C5: when no outputs are declared, an invocation whose process exits   *)
(* with status 0 returns an empty state update, neither a replace nor an *)
(* append operation, and harvests nothing, whatever inputs, chunk index  *)
(* and environment profile are given; applying it leaves the workflow    *)
(* spec as it was.                                                        *)
C5_NoOutputsNoUpdate ==
    (Len(olabels) = 0 /\ proc.spawned /\ proc.returncode = 0 /\ Finished) =>
        /\ result.returned
        /\ result.action.update_spec = None
        /\ result.action.mod_spec = None
        /\ loc.retlist = <<>>
        /\ loc.outlist = <<>>
        /\ wf_spec = WfSpec
        /\ pc # "rejected"

C5_Witness ==
    /\ Len(olabels) = 0
    /\ pc = "applied"
    /\ Chunked
    /\ Len(ilabels) = 2
    /\ Len(loc.arglist) > 2

(* C6: an invocation only reads the workflow spec it is handed: once it  *)
(* has returned or failed, every value reachable from that dictionary    *)
(* equals what it was when the invocation started.                       *)
C6_SpecOnlyRead == Finished => fw_spec = fw_snapshot

(* C7: nothing built during an invocation persists into the next: after  *)
(* the first run the command_spec is as constructed, and of two runs of  *)
(* the same task on the same snapshot that both return, the second       *)
(* builds the argument vector the first built.                           *)
C7_NothingPersists ==
    /\ (run = 1 /\ Finished) => task.command_spec = task0.command_spec
    /\ BothReturned => hist[2].argv = hist[1].argv

(* the declared outputs whose target is a path naming an existing directory *)
DirOutputs ==
    {i \in 1..Len(olabels) :
        /\ DeclaredType(olabels[i], "target") = W("path")
        /\ HasKey(DeclaredEndpoint(olabels[i], "target"), "value")
        /\ IsStr(DeclaredEndpoint(olabels[i], "target").d["value"])
        /\ IsDir(AbsPath(DeclaredEndpoint(olabels[i], "target").d["value"].s))}

DeclaredDir(i) == AbsPath(DeclaredEndpoint(olabels[i], "target").d["value"].s)

(* a path made of a directory, a separator and one file name *)
Inside(path, dir) ==
    /\ Len(path) = Len(dir) + 2
    /\ SubSeq(path, 1, Len(dir)) = dir
    /\ path[Len(dir) + 1] = "/"

(* C8: for an output whose target has type path and names an existing    *)
(* directory, the harvested record's value is a path inside that         *)
(* directory, and of two invocations of the task that both return, the   *)
(* second's value differs from the first's.                              *)
C8_FreshNameEachRun ==
    \A i \in DirOutputs :
        /\ (Len(hist) >= 1 /\ hist[1].returned /\ Len(hist[1].outlist) >= i) =>
              /\ HasKey(hist[1].outlist[i], "value")
              /\ Inside(hist[1].outlist[i].d["value"].s, DeclaredDir(i))
        /\ (BothReturned /\ Len(hist[1].outlist) >= i /\ Len(hist[2].outlist) >= i) =>
              /\ HasKey(hist[2].outlist[i], "value")
              /\ Inside(hist[2].outlist[i].d["value"].s, DeclaredDir(i))
              /\ hist[2].outlist[i].d["value"] # hist[1].outlist[i].d["value"]

(* the declared outputs whose target has type data *)
DataOutputs ==
    {i \in 1..Len(olabels) : DeclaredType(olabels[i], "target") = W("data")}

(* C9: for every output whose target has type data, whatever other       *)
(* outputs are declared, after the process has exited with status 0 the  *)
(* invocation returns and that output's record holds the text the        *)
(* process wrote to standard output, trimmed of leading and trailing     *)
(* whitespace.                                                            *)
C9_DataOutputIsStdout ==
    (DataOutputs # {} /\ proc.spawned /\ proc.returncode = 0 /\ Finished) =>
        /\ result.returned
        /\ \A i \in DataOutputs :
              /\ Len(loc.outlist) >= i
              /\ HasKey(loc.outlist[i], "value")
              /\ loc.outlist[i].d["value"] = Str(Strip(proc.wout))

(* the profile entry for the head of the command, when the expansion applies *)
HeadOf(command) == IF IsStr(command) THEN command ELSE command.l[1]

CommandTokens == IF IsStr(task0.command_spec.d["command"])
                 THEN <<task0.command_spec.d["command"]>>
                 ELSE task0.command_spec.d["command"].l

ProfileApplies ==
    /\ task.env # None
    /\ HasKey(fw_snapshot, "_fw_env")
    /\ HasKey(fw_snapshot.d["_fw_env"], KeyOf(task.env))
    /\ HasKey(fw_snapshot.d["_fw_env"].d[KeyOf(task.env)], "cmd")
    /\ HasKey(fw_snapshot.d["_fw_env"].d[KeyOf(task.env)].d["cmd"],
              KeyOf(HeadOf(task0.command_spec.d["command"])))

HeadEntry ==
    fw_snapshot.d["_fw_env"].d[KeyOf(task.env)].d["cmd"].d[
        KeyOf(HeadOf(task0.command_spec.d["command"]))]

PrefixEntries ==
    IF ~HasKey(HeadEntry, "prefix") THEN <<>>
    ELSE IF IsList(HeadEntry.d["prefix"]) THEN HeadEntry.d["prefix"].l
    ELSE <<HeadEntry.d["prefix"]>>

(* the text of a prefix entry: the literal, or the value of its expression *)
EntryText(e) == IF IsStr(e) THEN e ELSE EvalResult(e.d["eval"])

Textual(e) ==
    \/ IsStr(e)
    \/ IsDict(e) /\ HasKey(e, "eval") /\ EvalResult(e.d["eval"]).k \in {"str", "bytes"}

(* the maximal runs of non-whitespace text of s, as index pairs *)
Runs(s) ==
    {r \in (1..Len(s)) \X (1..Len(s)) :
        /\ r[1] <= r[2]
        /\ \A n \in r[1]..r[2] : ~(s[n] \in Whitespace)
        /\ r[1] = 1 \/ s[r[1] - 1] \in Whitespace
        /\ r[2] = Len(s) \/ s[r[2] + 1] \in Whitespace}

(* s is the whitespace tokenisation of text: its tokens are the runs of  *)
(* text, left to right                                                    *)
Tokenises(toks, text) ==
    /\ Len(toks) = Cardinality(Runs(text))
    /\ \E f \in [1..Len(toks) -> Runs(text)] :
          /\ \A m, n \in 1..Len(toks) : m < n => f[m][2] < f[n][1]
          /\ \A n \in 1..Len(toks) : toks[n] = Str(SubSeq(text, f[n][1], f[n][2]))

(* toks splits into one token group per entry, in declared order *)
RECURSIVE Groups(_, _, _)
Groups(toks, entries, i) ==
    IF i > Len(entries) THEN toks = <<>>
    ELSE \E n \in 0..Len(toks) :
            /\ Tokenises(SubSeq(toks, 1, n), EntryText(entries[i]).s)
            /\ Groups(SubSeq(toks, n + 1, Len(toks)), entries, i + 1)

(* the arguments the declared inputs contribute: the inputs of the tasks *)
(* run under a profile carry no binding and no target                    *)
InputArgs == [i \in 1..Len(ilabels) |-> Declared(ilabels[i]).d["source"].d["value"]]

(* the profile gives the head of the command a prefix list of text entries *)
Expanded ==
    /\ ProfileApplies
    /\ HasKey(HeadEntry, "prefix")
    /\ \A i \in 1..Len(PrefixEntries) : Textual(PrefixEntries[i])

(* C10: when the profile gives the head of the command a prefix list and *)
(* every entry is a string or an expression whose value is text, the     *)
(* expansion succeeds, and the argument vector handed to the process is  *)
(* the token groups of the entries (each the whitespace tokenisation of  *)
(* the entry's text) in declared order, then the command tokens, then    *)
(* the input and output arguments.                                       *)
C10_PrefixThenCommandThenArgs ==
    (Expanded /\ run >= 1 /\ pc # "resolve" /\ pc # "expand") =>
        /\ Len(hist) = run => hist[run].argv # <<>>
        /\ pc = "build" =>
              /\ Len(loc.command) >= Len(CommandTokens)
              /\ Groups(SubSeq(loc.command, 1, Len(loc.command) - Len(CommandTokens)),
                        PrefixEntries, 1)
              /\ SubSeq(loc.command, Len(loc.command) - Len(CommandTokens) + 1,
                        Len(loc.command)) = CommandTokens
        /\ pc = "spawn" =>
              \E n \in 0..Len(loc.arglist) :
                  /\ Groups(SubSeq(loc.arglist, 1, n), PrefixEntries, 1)
                  /\ SubSeq(loc.arglist, n + 1, Len(loc.arglist)) =
                        CommandTokens \o InputArgs

C10_Witness ==
    /\ pc = "spawn"
    /\ Expanded
    /\ PrefixEntries = <<W("mpirun"), Eval("mpiopts")>>
    /\ loc.arglist = <<W("mpirun"), W("-n"), W("4"), W("foo"), W("-v"), W("hello")>>

(* the ForeachTask returned and was asked for a number of chunks n >= 1 *)
ForeachDone ==
    /\ foreach.pc = "done"
    /\ foreach.self.number_of_chunks # None
    /\ foreach.self.number_of_chunks.n >= 1

(* C11: a ForeachTask given a number of chunks n >= 1 and a non-empty    *)
(* split list divides the list into exactly n chunks and generates       *)
(* exactly n child fireworks, one per chunk.                             *)
C11_ExactlyNChunks ==
    ForeachDone =>
        /\ Len(foreach.chunks) = foreach.self.number_of_chunks.n
        /\ Len(foreach.fireworks) = foreach.self.number_of_chunks.n

(* the cases in which the profile table gives the command no prefix: no  *)
(* profile name, no table or no such profile, the head not listed under  *)
(* cmd, or the head listed without a prefix entry                        *)
NoPrefixCase == ~ProfileApplies \/ ~HasKey(HeadEntry, "prefix")

Evals(log) == {i \in 1..Len(log) : log[i].op = "eval"}

(* C12: in each of the cases of NoPrefixCase the expansion step raises   *)
(* no error and leaves the command as it found it: the argument vector   *)
(* goes on to the builder with the original command tokens at its head   *)
(* and no prefix token, and no prefix expression is evaluated.           *)
C12_NoPrefixNoOp ==
    [][(pc = "expand" /\ NoPrefixCase) =>
          /\ pc' = "build"
          /\ loc'.command = loc.command
          /\ SubSeq(loc'.command, 1, Len(CommandTokens)) = CommandTokens
          /\ Evals(os'.log) = Evals(os.log)
          /\ UNCHANGED <<result, hist, task, fw_spec>>]_vars

C12_Witness ==
    /\ pc = "spawn"
    /\ NoPrefixCase
    /\ ProfileApplies
    /\ loc.arglist = <<W("foo"), W("-v"), W("hello")>>
    /\ Len(os.log) = 3

(* a prefix entry the expansion rejects: a record without eval, an entry *)
(* that is neither a string nor a record, or an expression whose value   *)
(* is not text once bytes are decoded                                    *)
Malformed(e) ==
    IF IsDict(e)
    THEN ~HasKey(e, "eval") \/ ~(EvalResult(e.d["eval"]).k \in {"str", "bytes"})
    ELSE ~IsStr(e)

MalformedPrefix ==
    /\ ProfileApplies
    /\ HasKey(HeadEntry, "prefix")
    /\ \E i \in 1..Len(PrefixEntries) : Malformed(PrefixEntries[i])

(* C13: when the prefix list of the command head holds a malformed       *)
(* entry, the invocation ends in an error raised by the expansion: the   *)
(* process is never spawned, nothing is built or harvested, and no       *)
(* state update is returned.                                             *)
C13_MalformedPrefixAborts ==
    (MalformedPrefix /\ run >= 1 /\ pc # "resolve" /\ pc # "expand") =>
        /\ pc = "failed"
        /\ result.error.name = "ValueError"
        /\ ~result.returned
        /\ result.action = FWAction(None, None)
        /\ ~proc.spawned
        /\ loc.arglist = <<>>
        /\ wf_spec = WfSpec
        /\ Len(hist) = run
        /\ \A i \in 1..Len(hist) : ~hist[i].returned /\ hist[i].argv = <<>>

C13_Witness ==
    /\ MalformedPrefix
    /\ pc = "failed"
    /\ run = 2
    /\ PrefixEntries = <<W("mpirun"), Num(4)>>
    /\ Len(ilabels) = 1

ProfilePresent ==
    /\ task.env # None
    /\ HasKey(fw_snapshot, "_fw_env")
    /\ HasKey(fw_snapshot.d["_fw_env"], KeyOf(task.env))

Profile == fw_snapshot.d["_fw_env"].d[KeyOf(task.env)]

(* the init expressions of a profile or of a command entry, as declared *)
InitExprs(tab) ==
    IF ~HasKey(tab, "init") THEN <<>>
    ELSE IF IsStr(tab.d["init"]) THEN <<tab.d["init"]>> ELSE tab.d["init"].l

Executed(exprs) == [i \in 1..Len(exprs) |-> [op |-> "exec", code |-> exprs[i]]]

(* the prefix expressions evaluated: those of the entries up to the      *)
(* first malformed one, in declared order                                *)
RECURSIVE Evaluated(_, _)
Evaluated(entries, i) ==
    IF i > Len(entries) THEN <<>>
    ELSE (IF IsDict(entries[i]) /\ HasKey(entries[i], "eval")
          THEN <<[op |-> "eval", code |-> entries[i].d["eval"]]>> ELSE <<>>)
         \o (IF Malformed(entries[i]) THEN <<>> ELSE Evaluated(entries, i + 1))

(* what one expansion executes, in order *)
ExpansionOrder ==
    IF ~ProfilePresent THEN <<>>
    ELSE Executed(InitExprs(Profile))
         \o (IF ProfileApplies
             THEN Executed(InitExprs(HeadEntry)) \o Evaluated(PrefixEntries, 1)
             ELSE <<>>)

RECURSIVE Times(_, _)
Times(s, n) == IF n = 0 THEN <<>> ELSE s \o Times(s, n - 1)

(* C14: every expansion executes the profile's init expressions in       *)
(* declared order, then (only when the command head is listed under cmd) *)
(* the command's init expressions in declared order, then the prefix     *)
(* expressions; the profile's init runs whether or not the head is       *)
(* listed, and nothing is executed when there is no profile.             *)
C14_InitsBeforePrefixes ==
    (run >= 1 /\ pc # "resolve" /\ pc # "expand") =>
        os.log = Times(ExpansionOrder, run)

C14_Witness ==
    /\ run = 1
    /\ pc = "build"
    /\ ProfileApplies
    /\ os.log = <<[op |-> "exec", code |-> W("import-os")],
                  [op |-> "exec", code |-> W("load-foo")],
                  [op |-> "eval", code |-> W("mpiopts")]>>

(* the labels of the two lists whose IOEntry is a string *)
StringLabels(labels) == {i \in 1..Len(labels) : IsStr(Declared(labels[i]))}

(* the workflow-spec list a string IOEntry names *)
NamedList(label) == fw_snapshot.d[KeyOf(Declared(label))].l

(* one ResolvedArgument per item, in list order: the item itself when it *)
(* is a record with a source field, {source: item} otherwise             *)
ExpectedItems(label) ==
    Items([j \in 1..Len(NamedList(label)) |->
             IF IsDict(NamedList(label)[j]) /\ HasKey(NamedList(label)[j], "source")
             THEN Obj(Ref("fw", <<KeyOf(Declared(label)), j>>))
             ELSE Fresh("source" :> Ref("fw", <<KeyOf(Declared(label)), j>>))])

(* C15: when the IOEntry of a label is a string s, the resolver yields   *)
(* one ResolvedArgument per item of the workflow-spec list at key s, in  *)
(* list order: an item with a source field as it is, every other item x  *)
(* (raw value or record without source) wrapped as {source: x}.          *)
C15_OneArgumentPerItem ==
    (run >= 1 /\ pc # "resolve") =>
        /\ \A i \in StringLabels(ilabels) :
              /\ Len(loc.inputs) >= i
              /\ loc.inputs[i] = ExpectedItems(ilabels[i])
        /\ \A i \in StringLabels(olabels) :
              /\ Len(loc.outputs) >= i
              /\ loc.outputs[i] = ExpectedItems(olabels[i])

(* the fields of a record IOEntry, among binding, source and target *)
FieldsOf(label) == DOMAIN Declared(label).d \cap {"binding", "source", "target"}

(* a field that is neither a string nor a record *)
BadField(label) ==
    \E key \in FieldsOf(label) :
        ~IsStr(Declared(label).d[key]) /\ ~IsDict(Declared(label).d[key])

(* the ResolvedArgument of a record IOEntry: a string field refers to    *)
(* the workflow-spec value at that key, to its first element when that   *)
(* value is a list; a record field is the record of the entry itself     *)
ExpectedFields(label) ==
    Fresh([key \in FieldsOf(label) |->
             IF IsStr(Declared(label).d[key])
             THEN IF IsList(fw_snapshot.d[KeyOf(Declared(label).d[key])])
                  THEN Ref("fw", <<KeyOf(Declared(label).d[key]), 1>>)
                  ELSE Ref("fw", <<KeyOf(Declared(label).d[key])>>)
             ELSE Ref("cmd", <<label, key>>)])

(* what the resolver made of a list of labels whose entries are records *)
ResolvedAs(labels, ios) ==
    \A i \in 1..Len(labels) :
        IF \E j \in 1..i : BadField(labels[j])
        THEN /\ Len(ios) < i
             /\ pc = "failed"
             /\ result.error.name = "ValueError"
             /\ ~proc.spawned
        ELSE /\ Len(ios) >= i
             /\ ios[i] = ExpectedFields(labels[i])
             /\ \A key \in FieldsOf(labels[i]) :
                   IsStr(Declared(labels[i]).d[key]) =>
                      Deref(task.command_spec, fw_snapshot, ios[i].f[key]) =
                         IF IsList(fw_snapshot.d[KeyOf(Declared(labels[i]).d[key])])
                         THEN fw_snapshot.d[KeyOf(Declared(labels[i]).d[key])].l[1]
                         ELSE fw_snapshot.d[KeyOf(Declared(labels[i]).d[key])]

AllRecords == StringLabels(ilabels) = {} /\ StringLabels(olabels) = {}
BadInput == \E i \in 1..Len(ilabels) : BadField(ilabels[i])

(* C16: for a label whose IOEntry is a record, each of binding, source   *)
(* and target that is present is resolved on its own: a string becomes   *)
(* the workflow-spec value at that key (its first element when that      *)
(* value is a list), a record is used as it is, and a value of any other *)
(* type makes the invocation fail; absent fields stay absent.            *)
C16_FieldsResolvedIndependently ==
    (AllRecords /\ run >= 1 /\ pc # "resolve") =>
        /\ ResolvedAs(ilabels, loc.inputs)
        /\ ~BadInput => ResolvedAs(olabels, loc.outputs)

C16_Witness ==
    /\ pc = "spawn"
    /\ ilabels = <<"sref", "sone">>
    /\ olabels = <<"ref">>
    /\ loc.arglist = <<W("echo"), W("first"), Str(<<"-f", "one">>)>>

(* the ResolvedArguments of a list of resolved labels, in order *)
RECURSIVE Arguments(_, _)
Arguments(ios, i) ==
    IF i > Len(ios) THEN <<>>
    ELSE (IF ios[i].kind = "list" THEN ios[i].items ELSE <<ios[i]>>)
         \o Arguments(ios, i + 1)

Graphs == [cs |-> task.command_spec, fs |-> fw_spec]

(* a field of a ResolvedArgument, None when absent *)
Field(a, key) ==
    IF ArgIsDict(Graphs, a) /\ ArgHas(Graphs, a, key)
    THEN Deref(task.command_spec, fw_spec, ArgRef(a, key))
    ELSE None

(* an input without a target whose source is a path or data with a value *)
PlainInput(a) ==
    /\ ArgIsDict(Graphs, a)
    /\ ~ArgHas(Graphs, a, "target")
    /\ IsDict(Field(a, "source"))
    /\ HasKey(Field(a, "source"), "type")
    /\ HasKey(Field(a, "source"), "value")
    /\ \/ Field(a, "source").d["type"] = W("data")
             /\ Field(a, "source").d["value"].k \in {"str", "int"}
       \/ Field(a, "source").d["type"] = W("path")
             /\ IsStr(Field(a, "source").d["value"])

BindingPart(a, part) ==
    IF IsDict(Field(a, "binding")) /\ HasKey(Field(a, "binding"), part)
    THEN Field(a, "binding").d[part].s
    ELSE <<>>

AsText(v) == IF IsStr(v) THEN v.s ELSE <<ToString(v.n)>>

(* prefix, then separator, then the source value as text *)
Rendered(a) ==
    BindingPart(a, "prefix") \o BindingPart(a, "separator")
        \o AsText(Field(a, "source").d["value"])

(* one element per argument whose text is not empty, in order *)
RECURSIVE Elements(_, _)
Elements(args, i) ==
    IF i > Len(args) THEN <<>>
    ELSE (IF Len(Rendered(args[i])) > 0 THEN <<Str(Rendered(args[i]))>> ELSE <<>>)
         \o Elements(args, i + 1)

PlainInputs ==
    /\ Len(Arguments(loc.inputs, 1)) > 0
    /\ \A i \in 1..Len(Arguments(loc.inputs, 1)) : PlainInput(Arguments(loc.inputs, 1)[i])

(* C17: given inputs without a target, the builder puts after the tokens *)
(* of the command it is handed one element per input, in declared order, *)
(* equal to binding prefix, then binding separator, then the source      *)
(* value as text, leaving out an input whose text is empty; a binding    *)
(* never yields more than one element.                                   *)
C17_OneElementPerInput ==
    [][(pc = "build" /\ PlainInputs) =>
          LET built == loc.command \o Elements(Arguments(loc.inputs, 1), 1)
          IN  /\ Len(loc'.arglist) >= Len(built)
              /\ SubSeq(loc'.arglist, 1, Len(built)) = built
              /\ Len(olabels) = 0 => (pc' = "spawn" /\ loc'.arglist = built)]_vars

C17_Witness ==
    /\ pc = "spawn"
    /\ ilabels = <<"file", "nil", "cnt">>
    /\ PlainInputs
    /\ loc.arglist = <<W("echo"), Str(<<"--in", "in.txt">>), Str(<<"-n", "=", "4">>)>>

(* the positions of the inputs that claim standard input *)
StdinClaims ==
    {i \in 1..Len(Arguments(loc.inputs, 1)) :
        /\ ArgIsDict(Graphs, Arguments(loc.inputs, 1)[i])
        /\ ArgHas(Graphs, Arguments(loc.inputs, 1)[i], "target")
        /\ IsDict(Field(Arguments(loc.inputs, 1)[i], "target"))
        /\ HasKey(Field(Arguments(loc.inputs, 1)[i], "target"), "type")
        /\ Field(Arguments(loc.inputs, 1)[i], "target").d["type"] = W("stdin")}

SourceOf(i) == Field(Arguments(loc.inputs, 1)[i], "source")

(* what an input claiming standard input asks of the process: the stream *)
(* and the inline payload                                                *)
StdinOf(i) ==
    IF SourceOf(i).d["type"] = W("path")
    THEN [stdin |-> File(SourceOf(i).d["value"].s, "r"), input |-> None]
    ELSE [stdin |-> PIPE, input |-> Bytes(AsText(SourceOf(i).d["value"]))]

Supported(i) == SourceOf(i).d["type"] \in {W("path"), W("data")}

(* C18: for a task with one input whose target is standard input: a      *)
(* source of type path makes the named file the standard input of the    *)
(* process, a source of type data makes the text of the value, as bytes, *)
(* the payload handed to the process once spawned, and a source of any   *)
(* other type makes the invocation fail without spawning the process.    *)
C18_StdinFromSource ==
    [][/\ (pc = "build" /\ Cardinality(StdinClaims) = 1) =>
            \A i \in StdinClaims :
                IF Supported(i)
                THEN /\ loc'.stdin = StdinOf(i).stdin
                     /\ loc'.stdininp = StdinOf(i).input
                     /\ Len(olabels) = 0 => pc' = "spawn"
                ELSE /\ pc' = "failed"
                     /\ result'.error.name = "NotImplementedError"
                     /\ ~proc'.spawned
       /\ (pc = "spawn" /\ Cardinality(StdinClaims) = 1) =>
            \A i \in StdinClaims :
                /\ Supported(i)
                /\ proc'.spawned
                /\ proc'.stdin = StdinOf(i).stdin
                /\ proc'.input = StdinOf(i).input]_vars

C18_Witness ==
    /\ proc.spawned
    /\ ilabels = <<"fin">>
    /\ proc.stdin = File(<<"/", "w", "/", "in.txt">>, "r")
    /\ proc.input = None

(* the later of the inputs that claim standard input *)
Later == CHOOSE i \in StdinClaims : \A j \in StdinClaims : j <= i

(* C19: when two inputs of one task both claim standard input, what the  *)
(* process is given as standard input, the stream and the inline         *)
(* payload, is what the later input alone asks for, for every pairing of *)
(* path and data sources; nothing of the earlier input remains.          *)
C19_LaterStdinWins ==
    [][(pc = "spawn" /\ Cardinality(StdinClaims) = 2) =>
            /\ proc'.spawned
            /\ proc'.stdin = StdinOf(Later).stdin
            /\ proc'.input = StdinOf(Later).input]_vars

(* the task declares one output, a record whose target is a file, and its *)
(* inputs, if any, are plain                                              *)
TheOutput == Arguments(loc.outputs, 1)[1]

OneFileOutput ==
    /\ Len(loc.outputs) = 1
    /\ loc.outputs[1].kind # "list"
    /\ ArgIsDict(Graphs, TheOutput)
    /\ IsDict(Field(TheOutput, "target"))
    /\ HasKey(Field(TheOutput, "target"), "type")
    /\ Field(TheOutput, "target").d["type"] = W("path")
    /\ HasKey(Field(TheOutput, "target"), "value")
    /\ IsStr(Field(TheOutput, "target").d["value"])
    /\ Len(Field(TheOutput, "target").d["value"].s) > 0
    /\ Len(loc.inputs) > 0 => PlainInputs

SourceType ==
    IF ~ArgHas(Graphs, TheOutput, "source") THEN None
    ELSE Field(TheOutput, "source").d["type"]

(* C20: an output whose target is a file and whose source has type path  *)
(* changes none of the three stream assignments, which stay as lines     *)
(* 289-291 set them, and adds no element to the argument vector, whether *)
(* or not the output carries a binding; an output whose target is a file *)
(* with no source, or with a source of a type other than stdout, stderr  *)
(* and path, adds one element, which ends with the target path.          *)
C20_FileOutputArguments ==
    [][(pc = "build" /\ OneFileOutput) =>
          LET base == loc.command \o Elements(Arguments(loc.inputs, 1), 1)
              path == Deref(task'.command_spec, fw_spec',
                            ArgRef(TheOutput, "target")).d["value"].s
              bound == BindingPart(TheOutput, "prefix")
                           \o BindingPart(TheOutput, "separator")
          IN  /\ SourceType = W("path") =>
                    /\ pc' = "spawn"
                    /\ loc'.stdin = None /\ loc'.stdout = None /\ loc'.stderr = PIPE
                    /\ loc'.arglist = base
              /\ SourceType \notin {W("stdout"), W("stderr"), W("path")} =>
                    /\ pc' = "spawn"
                    /\ loc'.arglist = Append(base, Str(bound \o path))]_vars

(* the output descriptors as the builder takes them (line 325-326) *)
OutputArgs ==
    {(IF loc.outputs[i].kind = "list" THEN loc.outputs[i].items[1] ELSE loc.outputs[i]) :
        i \in {j \in 1..Len(loc.outputs) :
                  loc.outputs[j].kind = "list" => Len(loc.outputs[j].items) > 0}}

TypeOf(a, end) ==
    IF IsDict(Field(a, end)) /\ HasKey(Field(a, end), "type")
    THEN Field(a, end).d["type"]
    ELSE None

RepositoryInput ==
    \E i \in 1..Len(Arguments(loc.inputs, 1)) :
        TypeOf(Arguments(loc.inputs, 1)[i], "source") = W("identifier")

RepositoryOutput == \E o \in OutputArgs : TypeOf(o, "target") = W("identifier")

OutputWithoutTarget == \E o \in OutputArgs : ArgIsDict(Graphs, o) /\ ~ArgHas(Graphs, o, "target")

EmptyPathTarget ==
    \E o \in OutputArgs :
        /\ TypeOf(o, "target") = W("path")
        /\ HasKey(Field(o, "target"), "value")
        /\ Field(o, "target").d["value"] = Str(<<>>)

(* C21: an invocation that declares an input source or an output target  *)
(* of type identifier, an output without a target, or a path target with *)
(* an empty value fails in the builder: the process is not spawned and   *)
(* no state update is returned.                                          *)
C21_UnsupportedFailsBeforeSpawn ==
    [][(/\ pc = "build"
        /\ RepositoryInput \/ RepositoryOutput \/ OutputWithoutTarget \/ EmptyPathTarget) =>
            /\ pc' = "failed"
            /\ result'.error.name \in {"NotImplementedError", "AssertionError"}
            /\ ~result'.returned
            /\ result'.action = FWAction(None, None)
            /\ ~proc'.spawned
            /\ wf_spec' = wf_spec]_vars

C21_Witness ==
    /\ pc = "failed"
    /\ olabels = <<"log", "tid">>
    /\ result.error.name = "NotImplementedError"
    /\ ~proc.spawned
    /\ loc.stdout # None

(* the descriptor the builder uses for the output at position i (lines   *)
(* 325-326)                                                              *)
Used(i) == IF loc.outputs[i].kind = "list" THEN loc.outputs[i].items[1] ELSE loc.outputs[i]

(* C22: after a successful process exit the harvester returns exactly    *)
(* one record per declared output label, in declared order, each being   *)
(* the target record of the descriptor the builder used for that label,  *)
(* for outputs given as records and for outputs given as a string naming *)
(* a workflow-spec list.                                                 *)
C22_OneRecordPerOutput ==
    [][pc = "harvest" =>
          /\ pc' = "return"
          /\ Len(loc'.retlist) = Len(olabels)
          /\ \A i \in 1..Len(olabels) : loc'.retlist[i] = ArgRef(Used(i), "target")]_vars

(* the copies made by a step *)
NewCopies == SubSeq(os'.copies, Len(os.copies) + 1, Len(os'.copies))

(* an output whose source has type path, with the file it names and the  *)
(* normalized file its target names                                      *)
CopiedOutput(i, src, dst) ==
    /\ loc.outputs[i].kind # "list"
    /\ TypeOf(loc.outputs[i], "source") = W("path")
    /\ Field(loc.outputs[i], "source").d["value"] = Str(src)
    /\ Field(loc.outputs[i], "target").d["value"] = Str(dst)
    /\ dst = AbsPath(dst)

(* C23: a file is copied only in the harvest, after the process has      *)
(* exited with status 0, from the source value to the normalized target  *)
(* value of an output whose source has type path; when the process exits *)
(* with another status nothing is copied and no output record is         *)
(* emitted.                                                              *)
C23_CopyAfterSuccessfulExit ==
    [][/\ Len(os'.copies) >= Len(os.copies)
       /\ SubSeq(os'.copies, 1, Len(os.copies)) = os.copies
       /\ NewCopies # <<>> =>
            /\ pc = "harvest"
            /\ proc.spawned /\ proc.returncode = 0
            /\ \A k \in 1..Len(NewCopies) :
                  \E i \in 1..Len(loc.outputs) :
                      CopiedOutput(i, NewCopies[k].src, NewCopies[k].dst)
       /\ (pc = "spawn" /\ proc'.returncode # 0) =>
            /\ pc' = "failed"
            /\ NewCopies = <<>>
            /\ ~result'.returned
            /\ loc'.retlist = <<>> /\ loc'.outlist = <<>>
            /\ hist'[Len(hist')].outlist = <<>>]_vars

C23_Witness ==
    /\ pc = "return"
    /\ olabels = <<"cpb", "oval">>
    /\ run = 1
    /\ proc.returncode = 0
    /\ os.copies = <<[src |-> <<"/", "w", "/", "in.txt">>,
                      dst |-> <<"/", "w", "/", "o2.txt">>]>>

(* the list a child firework carries under a split label, <<>> when what *)
(* it carries there is not a list                                        *)
Carried(k, split) ==
    IF IsList(foreach.fireworks[k].spec.d[split])
    THEN foreach.fireworks[k].spec.d[split].l
    ELSE <<>>

(* the lists carried by the children k..n under a split label, one after *)
(* the other                                                             *)
RECURSIVE Concatenated(_, _)
Concatenated(k, split) ==
    IF k > Len(foreach.fireworks) THEN <<>>
    ELSE Carried(k, split) \o Concatenated(k + 1, split)

(* the number of elements the children before k carry under a label *)
RECURSIVE Before(_, _)
Before(k, split) == IF k = 1 THEN 0 ELSE Before(k - 1, split) + Len(Carried(k - 1, split))

SplitLabels == {split_list(foreach.self)[i] : i \in 1..Len(split_list(foreach.self))}

(* C24: ForeachTask partitions its split lists: for every split label    *)
(* the lists of the child fireworks, concatenated in index order, give   *)
(* back the original list; every chunk is non-empty; the child at        *)
(* position i carries chunk_number i; and child i receives the same      *)
(* index range of each split list.                                       *)
C24_ChunksPartition ==
    foreach.pc = "done" =>
        /\ \A s \in SplitLabels :
              /\ Concatenated(1, s) = foreach.fw_spec.d[s].l
              /\ \A k \in 1..Len(foreach.fireworks) : Len(Carried(k, s)) > 0
        /\ \A k \in 1..Len(foreach.fireworks) :
              /\ foreach.fireworks[k].tasks[1].chunk_number = Num(k - 1)
              /\ \A s, u \in SplitLabels :
                    /\ Len(Carried(k, s)) = Len(Carried(k, u))
                    /\ Before(k, s) = Before(k, u)
                    /\ Carried(k, s) = SubSeq(foreach.fw_spec.d[s].l, Before(k, u) + 1,
                                              Before(k, u) + Len(Carried(k, u)))
=============================================================================
